---- MODULE Spec2Model ----
(***************************************************************************)
(* Savor-save: order tracking, expense ledger, budget monitor and split    *)
(* calculator, modelled from the TypeScript hooks/components and the SQL   *)
(* migrations of the repository.                                           *)
(*                                                                         *)
(* Money is held in paise (hundredths of a rupee).  The SQL functions work *)
(* on DECIMAL and are modelled with exact integer arithmetic; the          *)
(* TypeScript functions work on IEEE-754 binary64 numbers and are modelled *)
(* with correctly rounded binary64 arithmetic (section "binary64").        *)
(***************************************************************************)
EXTENDS Integers, Sequences, FiniteSets, TLC

(***************************************************************************)
(* Arbitrary-size naturals: little-endian limb sequences, base 2^15, no    *)
(* high zero limb; << >> is 0.  They carry the 53-bit significands of      *)
(* binary64 numbers, which do not fit the model checker's integers.        *)
(***************************************************************************)
LimbBase == 32768

LimbBits == 15

Max(a, b) == IF a >= b THEN a ELSE b

Min(a, b) == IF a <= b THEN a ELSE b

RECURSIVE Pow2(_)
Pow2(k) == IF k = 0 THEN 1 ELSE 2 * Pow2(k - 1)

RECURSIVE BNorm(_)
BNorm(b) ==
  IF b = << >> THEN << >>
  ELSE IF b[Len(b)] = 0 THEN BNorm(SubSeq(b, 1, Len(b) - 1))
  ELSE b

RECURSIVE BFromInt(_)
BFromInt(n) ==
  IF n = 0 THEN << >>
  ELSE <<n % LimbBase>> \o BFromInt(n \div LimbBase)

RECURSIVE BToInt(_)
BToInt(b) ==
  IF b = << >> THEN 0
  ELSE b[1] + LimbBase * BToInt(Tail(b))

RECURSIVE BMulCarry(_, _, _)
BMulCarry(b, k, carry) ==
  IF b = << >> THEN BFromInt(carry)
  ELSE LET t == b[1] * k + carry
       IN  <<t % LimbBase>> \o BMulCarry(Tail(b), k, t \div LimbBase)

\* b * k for 0 <= k <= LimbBase
BMulSmall(b, k) == BNorm(BMulCarry(b, k, 0))

RECURSIVE BDivFrom(_, _, _, _)
BDivFrom(b, d, i, rem) ==
  IF i = 0 THEN [q |-> << >>, r |-> rem]
  ELSE LET t    == rem * LimbBase + b[i]
           rest == BDivFrom(b, d, i - 1, t % d)
       IN  [q |-> rest.q \o <<t \div d>>, r |-> rest.r]

\* quotient and remainder of b by d, for 1 <= d <= LimbBase
BDivSmall(b, d) ==
  LET res == BDivFrom(b, d, Len(b), 0)
  IN  [q |-> BNorm(res.q), r |-> res.r]

RECURSIVE BAddCarry(_, _, _)
BAddCarry(a, b, carry) ==
  IF a = << >> /\ b = << >> THEN BFromInt(carry)
  ELSE LET x == IF a = << >> THEN 0 ELSE a[1]
           y == IF b = << >> THEN 0 ELSE b[1]
           t == x + y + carry
       IN  <<t % LimbBase>> \o
           BAddCarry(IF a = << >> THEN a ELSE Tail(a),
                     IF b = << >> THEN b ELSE Tail(b), t \div LimbBase)

BAdd(a, b) == BNorm(BAddCarry(a, b, 0))

RECURSIVE BSubBorrow(_, _, _)
BSubBorrow(a, b, borrow) ==
  IF a = << >> THEN << >>
  ELSE LET y == IF b = << >> THEN 0 ELSE b[1]
           t == a[1] - y - borrow
       IN  <<IF t < 0 THEN t + LimbBase ELSE t>> \o
           BSubBorrow(Tail(a), IF b = << >> THEN b ELSE Tail(b),
                      IF t < 0 THEN 1 ELSE 0)

\* a - b for a >= b
BSub(a, b) == BNorm(BSubBorrow(a, b, 0))

RECURSIVE BCmpFrom(_, _, _)
BCmpFrom(a, b, i) ==
  IF i = 0 THEN 0
  ELSE IF a[i] > b[i] THEN 1
  ELSE IF a[i] < b[i] THEN -1
  ELSE BCmpFrom(a, b, i - 1)

\* -1, 0 or 1 as a < b, a = b or a > b
BCmp(a, b) ==
  IF Len(a) > Len(b) THEN 1
  ELSE IF Len(a) < Len(b) THEN -1
  ELSE BCmpFrom(a, b, Len(a))

RECURSIVE IntBitLen(_)
IntBitLen(n) == IF n = 0 THEN 0 ELSE 1 + IntBitLen(n \div 2)

BBitLen(b) ==
  IF b = << >> THEN 0
  ELSE LimbBits * (Len(b) - 1) + IntBitLen(b[Len(b)])

BIsOdd(b) == b # << >> /\ b[1] % 2 = 1

\* b * 2^k
BShl(b, k) ==
  IF b = << >> THEN << >>
  ELSE [i \in 1..(k \div LimbBits) |-> 0] \o BMulSmall(b, Pow2(k % LimbBits))

\* b \div 2^k, and whether a non-zero bit was shifted out
BShr(b, k) ==
  LET drop   == Min(k \div LimbBits, Len(b))
      low    == SubSeq(b, 1, drop)
      high   == SubSeq(b, drop + 1, Len(b))
      d      == BDivSmall(high, Pow2(k % LimbBits))
  IN  [q |-> d.q,
       sticky |-> (d.r # 0) \/ (\E i \in 1..drop : low[i] # 0)]

(***************************************************************************)
(* binary64.  A number is [sign, m, e] with value sign * m * 2^e, where m  *)
(* is 0 or 2^52 <= m < 2^53.  Every operation returns the exact result     *)
(* rounded to nearest, ties to even, as ECMAScript's Number arithmetic     *)
(* does.  The amounts handled here stay far from the subnormal and         *)
(* overflow ranges, which are not modelled.                                *)
(***************************************************************************)
Precision == 53

DZero == [sign |-> 1, m |-> << >>, e |-> 0]

\* Below, an operation binds its operands and intermediate results to bound
\* variables (x \in {a}), so that each is computed once.

\* sign * (q + f) * 2^e rounded to binary64, where q has more than
\* Precision + 1 bits, 0 <= f < 1 and inexact tells whether f # 0: s1 is q
\* down to the rounding bit, m1 the rounded significand
RoundQuot(sign, q, inexact, e) ==
  CHOOSE r \in UNION {{
      [sign |-> sign,
       m    |-> IF BBitLen(m1) > Precision THEN BShr(m1, 1).q ELSE m1,
       e    |-> e + drop + (IF BBitLen(m1) > Precision THEN 1 ELSE 0)]
      : m1 \in {IF BIsOdd(s1.q) /\ (s1.sticky \/ inexact \/ BIsOdd(BShr(s1.q, 1).q))
                THEN BAdd(BShr(s1.q, 1).q, <<1>>)
                ELSE BShr(s1.q, 1).q},
        drop \in {BBitLen(q) - Precision}}
    : s1 \in {BShr(q, BBitLen(q) - Precision - 1)}} : TRUE

\* sign * (p / q) * 2^e rounded to binary64, for 1 <= q <= LimbBase
RoundRat(sign, p, q, e) ==
  CHOOSE r \in UNION {{
      IF n = << >> THEN DZero ELSE RoundQuot(sign, d.q, d.r # 0, e - k)
      : d \in {BDivSmall(BShl(n, k), q)}}
    : n \in {p}, k \in {Max(0, Precision + 4 + LimbBits - BBitLen(p))}} : TRUE

\* the Number nearest to the decimal p / q (a parsed decimal literal)
DFromRat(p, q) == RoundRat(1, BFromInt(p), q, 0)

\* a / n for an integer 1 <= n <= LimbBase
DDivInt(a, n) == CHOOSE r \in {RoundRat(x.sign, x.m, n, x.e) : x \in {a}} : TRUE

\* a * k for an integer 0 <= k <= LimbBase
DMulInt(a, k) ==
  CHOOSE r \in {RoundRat(x.sign, BMulSmall(x.m, k), 1, x.e) : x \in {a}} : TRUE

\* Math.floor(a) for 0 <= a < 2^31, as an integer
DFloor(a) ==
  CHOOSE r \in {IF x.m = << >> THEN 0
                ELSE IF x.e >= 0 THEN BToInt(BShl(x.m, x.e))
                ELSE BToInt(BShr(x.m, 0 - x.e).q) : x \in {a}} : TRUE

\* the exact (unrounded) sum a + b as [sign, m, e], m of any size: x and y
\* are the two significands at the smaller exponent
ExactAdd(a, b) ==
  IF a.m = << >> THEN b
  ELSE IF b.m = << >> THEN a
  ELSE CHOOSE r \in {
         IF a.sign = b.sign
         THEN [sign |-> a.sign, m |-> BAdd(x, y), e |-> Min(a.e, b.e)]
         ELSE IF BCmp(x, y) = 0 THEN DZero
         ELSE IF BCmp(x, y) > 0
              THEN [sign |-> a.sign, m |-> BSub(x, y), e |-> Min(a.e, b.e)]
         ELSE [sign |-> b.sign, m |-> BSub(y, x), e |-> Min(a.e, b.e)]
         : x \in {BShl(a.m, a.e - Min(a.e, b.e))},
           y \in {BShl(b.m, b.e - Min(a.e, b.e))}} : TRUE

DNeg(a) == [a EXCEPT !.sign = 0 - a.sign]

DRound(x) == CHOOSE r \in {RoundRat(v.sign, v.m, 1, v.e) : v \in {x}} : TRUE

DAdd(a, b) == CHOOSE r \in {DRound(ExactAdd(x, y)) : x \in {a}, y \in {b}} : TRUE

DSub(a, b) ==
  CHOOSE r \in {DRound(ExactAdd(x, DNeg(y))) : x \in {a}, y \in {b}} : TRUE

\* the largest t in lo..hi with d * t <= cur, given d * lo <= cur
RECURSIVE BDigit(_, _, _, _)
BDigit(cur, d, lo, hi) ==
  IF lo = hi THEN lo
  ELSE CHOOSE t \in {IF BCmp(BMulSmall(d, mid), cur) <= 0
                     THEN BDigit(cur, d, mid, hi)
                     ELSE BDigit(cur, d, lo, mid - 1)
                     : mid \in {(lo + hi + 1) \div 2}} : TRUE

\* one step of the long division: h is the quotient and remainder of the
\* higher limbs, limb the next lower limb of the dividend
BDivStep(h, limb, d) ==
  CHOOSE res \in UNION {{
      [q |-> BNorm(<<t>> \o h.q), r |-> BSub(cur, BMulSmall(d, t))]
      : t \in {BDigit(cur, d, 0, LimbBase - 1)}}
    : cur \in {BNorm(<<limb>> \o h.r)}} : TRUE

\* n \div d and n % d for d # 0: long division, one limb of n at a time
RECURSIVE BDivBig(_, _)
BDivBig(n, d) ==
  IF n = << >> THEN [q |-> << >>, r |-> << >>]
  ELSE CHOOSE res \in {BDivStep(h, limb, m) : h \in {BDivBig(Tail(n), d)},
                                              limb \in {n[1]}, m \in {d}} : TRUE

\* a / b for b # 0
DDiv(a, b) ==
  CHOOSE r \in UNION {{
      IF x.m = << >> THEN DZero
      ELSE RoundQuot(x.sign * y.sign, d.q, d.r # << >>, x.e - y.e - (Precision + 4))
      : d \in {BDivBig(BShl(x.m, Precision + 4), y.m)}}
    : x \in {a}, y \in {b}} : TRUE

\* a > b
DGreater(a, b) ==
  CHOOSE r \in UNION {{d.m # << >> /\ d.sign > 0 : d \in {ExactAdd(x, DNeg(y))}}
                       : x \in {a}, y \in {b}} : TRUE

\* Math.abs(a)
DAbs(a) == [a EXCEPT !.sign = 1]

\* -1, 0 or 1 as the exact value x is below, equal to or above p / q (p >= 0)
CmpRat(x, p, q) ==
  CHOOSE r \in {
    IF v.m = << >> THEN (IF p = 0 THEN 0 ELSE -1)
    ELSE IF v.sign < 0 THEN -1
    ELSE IF v.e >= 0
         THEN BCmp(BMulSmall(BShl(v.m, v.e), q), BFromInt(p))
         ELSE BCmp(BMulSmall(v.m, q), BShl(BFromInt(p), 0 - v.e)) : v \in {x}} : TRUE

\* the exact value x rounded to the nearest paisa (x >= 0), for reading results
ToPaise(x) ==
  CHOOSE r \in {
    IF v.m = << >> THEN 0
    ELSE (BToInt(IF v.e >= 0 THEN BShl(BMulSmall(v.m, 200), v.e)
                 ELSE BShr(BMulSmall(v.m, 200), 0 - v.e).q) + 1) \div 2
    : v \in {x}} : TRUE

(***************************************************************************)
(* Split calculator.                                                       *)
(***************************************************************************)
\* ExpenseTrackerSimple.tsx splitExpenseEqually(totalAmount, people): the
\* shares, person 1 first, as binary64 numbers
splitExpenseEqually(totalAmount, people) ==
  LET share     == DFromRat(DFloor(DMulInt(DDivInt(totalAmount, people), 100)), 100)
      remainder == DSub(totalAmount, DMulInt(share, people))
  IN  [i \in 1..people |-> IF i = 1 THEN DAdd(share, remainder) ELSE share]

\* split_expense_equally(p_total_amount, p_people) on DECIMAL, in paise.
\* v_share = FLOOR(total / people * 100) / 100 is the total's paise divided
\* by people, rounded down: the quotient is carried to at least 16
\* significant digits, so FLOOR sees the exact integer part for every
\* DECIMAL(10,2) amount.
split_expense_equally(p_total_amount, p_people) ==
  LET v_share     == p_total_amount \div p_people
      v_remainder == p_total_amount - v_share * p_people
  IN  [i \in 1..p_people |-> IF i = 1 THEN v_share + v_remainder ELSE v_share]


(***************************************************************************)
(* Order tracking: the orders and order_status_history tables and the      *)
(* update_order_status function.                                           *)
(***************************************************************************)
\* SQL NULL in a timestamp or rating column
NULL == 0

\* SQL NULL / undefined in a text column
NoText == "null"

OrderStatuses ==
  {"placed", "confirmed", "preparing", "ready", "picked_up", "on_the_way",
   "nearby", "delivered", "cancelled", "failed"}

\* the columns of public.orders that the tracking operations read or write;
\* a row inserted by the client carries status 'placed' and the column
\* defaults: placed_at = now(), every other timestamp, the cancellation
\* columns and the rating NULL
NewOrderRow(t, order_number, user_id) ==
  [orderNumber        |-> order_number,
   userId             |-> user_id,
   status             |-> "placed",
   placedAt           |-> t,
   confirmedAt        |-> NULL,
   preparingAt        |-> NULL,
   readyAt            |-> NULL,
   pickedUpAt         |-> NULL,
   onTheWayAt         |-> NULL,
   deliveredAt        |-> NULL,
   cancelledAt        |-> NULL,
   cancellationReason |-> NoText,
   cancelledBy        |-> NoText,
   rating             |-> NULL,
   review             |-> NoText]

\* the UPDATE of update_order_status applied to one row at time t
StatusUpdate(row, p_new_status, t) ==
  [row EXCEPT
     !.status      = p_new_status,
     !.confirmedAt = IF p_new_status = "confirmed" THEN t ELSE @,
     !.preparingAt = IF p_new_status = "preparing" THEN t ELSE @,
     !.readyAt     = IF p_new_status = "ready" THEN t ELSE @,
     !.pickedUpAt  = IF p_new_status = "picked_up" THEN t ELSE @,
     !.onTheWayAt  = IF p_new_status = "on_the_way" THEN t ELSE @,
     !.deliveredAt = IF p_new_status = "delivered" THEN t ELSE @,
     !.cancelledAt = IF p_new_status = "cancelled" THEN t ELSE @]

HistoryEntry(p_order_id, p_new_status, p_message, t) ==
  [orderId |-> p_order_id, status |-> p_new_status, message |-> p_message,
   createdAt |-> t]

\* update_order_status with a history that is deduplicated: no entry is
\* inserted when the order already has the new status
update_order_status_dedup(ords, hist, t, p_order_id, p_new_status, p_message) ==
  IF p_order_id \notin DOMAIN ords
  THEN [orders |-> ords, history |-> hist, error |-> TRUE, found |-> FALSE]
  ELSE [orders  |-> [ords EXCEPT ![p_order_id] = StatusUpdate(@, p_new_status, t)],
        history |-> IF ords[p_order_id].status = p_new_status THEN hist
                    ELSE Append(hist, HistoryEntry(p_order_id, p_new_status, p_message, t)),
        error   |-> FALSE,
        found   |-> TRUE]

\* update_order_status(p_order_id, p_new_status, p_message) run at time t on
\* the tables ords (rows indexed by order id) and hist.  With no such order
\* the UPDATE touches no row and the INSERT violates the foreign key of
\* order_status_history.order_id, which aborts the call: nothing is written
\* and the caller receives an error.  Otherwise the row is updated, one
\* history entry is inserted and FOUND (set by the INSERT) is true.
update_order_status(ords, hist, t, p_order_id, p_new_status, p_message) ==
  IF p_order_id \notin DOMAIN ords
  THEN [orders |-> ords, history |-> hist, error |-> TRUE, found |-> FALSE]
  ELSE [orders  |-> [ords EXCEPT ![p_order_id] = StatusUpdate(@, p_new_status, t)],
        history |-> Append(hist, HistoryEntry(p_order_id, p_new_status, p_message, t)),
        error   |-> FALSE,
        found   |-> TRUE]

\* canCancel that still admits an order under preparation
canCancel_until_preparing(order) ==
  order.status \in {"placed", "confirmed", "preparing"}

\* getOrderTrackingState: canCancel and canRate of an order
canCancel(order) == order.status \in {"placed", "confirmed"}

canRate(order) == order.status = "delivered" /\ order.rating = NULL

\* TO_CHAR(now(), 'YYYYMMDD') on the day the sessions run, digit by digit
DateText == <<2, 0, 2, 6, 0, 2, 0, 6>>

\* n::TEXT for n >= 0, digit by digit
RECURSIVE Digits(_)
Digits(n) == IF n < 10 THEN <<n>> ELSE Append(Digits(n \div 10), n % 10)

\* LPAD(text, len, fill): filled on the left up to len, cut on the right
\* when text is longer than len
LPAD(text, len, fill) ==
  IF Len(text) >= len THEN SubSeq(text, 1, len)
  ELSE [i \in 1..(len - Len(text)) |-> fill] \o text

\* text LIKE prefix || '%'
Like(text, prefix) ==
  Len(text) >= Len(prefix) /\ SubSeq(text, 1, Len(prefix)) = prefix

\* generate_order_number() on the table ords: the date and, padded to four
\* digits, one more than the number of orders whose number starts with it
generate_order_number(ords) ==
  LET v_count == Cardinality({o \in DOMAIN ords : Like(ords[o].orderNumber, DateText)})
  IN  DateText \o LPAD(Digits(v_count + 1), 4, 0)

\* getOrderTrackingState(order): the flags of the returned tracking state
getOrderTrackingState(order) ==
  [currentStatus |-> order.status,
   isDelivered   |-> order.status = "delivered",
   isCancelled   |-> order.status = "cancelled",
   canCancel     |-> canCancel(order),
   canRate       |-> canRate(order)]

\* LiveOrderTracking: the simulated status sequence its timer walks through
statusSequence ==
  <<"order_received", "preparing", "ready", "out_for_delivery", "nearby",
    "delivered">>


(***************************************************************************)
(* Expense ledger: table public.food_orders and the local collection of    *)
(* useFoodExpenses.                                                        *)
(***************************************************************************)
\* no authenticated user (getCurrentUserId() returns null)
NoUser == 0

\* identities: addExpense's temporary id is Date.now().toString(), the
\* store assigns a UUID
TempId(ms) == [kind |-> "temp", n |-> ms]

ServerId(k) == [kind |-> "uuid", n |-> k]

\* an optional value: undefined / NULL, or <<value>>
Undefined == << >>

\* x || undefined for an optional text and an optional number ('' and 0 are
\* falsy)
TextOrUndefined(x) == IF x = <<"">> THEN Undefined ELSE x

NumberOrUndefined(x) == IF x = <<0>> THEN Undefined ELSE x

\* the local entry { ...expense, id }; `call` names the addExpense call (the
\* expense) an entry or a row stems from and is not program state.  amount,
\* splitTotal and the shares' amounts are binary64 numbers.
LocalExpense(expense, id, call) ==
  [id              |-> id,
   call            |-> call,
   foodName        |-> expense.foodName,
   amount          |-> expense.amount,
   date            |-> expense.date,
   status          |-> expense.status,
   transactionType |-> expense.transactionType,
   isSplit         |-> expense.isSplit,
   splitTotal      |-> expense.splitTotal,
   splitPeople     |-> expense.splitPeople,
   splitShares     |-> expense.splitShares,
   cancelledAt     |-> expense.cancelledAt,
   cancelledReason |-> expense.cancelledReason]

\* the row addExpense inserts for user userId, with the store's id; the
\* money columns are DECIMAL(10,2) and hold paise, split_shares is JSONB and
\* holds the numbers as sent
FoodOrderRow(expense, id, userId, call) ==
  [id              |-> id,
   call            |-> call,
   userId          |-> userId,
   foodName        |-> expense.foodName,
   amount          |-> ToPaise(expense.amount),
   orderDate       |-> expense.date,
   status          |-> IF expense.status = NoText THEN "completed" ELSE expense.status,
   transactionType |-> IF expense.transactionType = NoText THEN "expense"
                       ELSE expense.transactionType,
   isSplit         |-> expense.isSplit,
   splitTotal      |-> IF expense.splitTotal = Undefined \/ expense.splitTotal = <<DZero>>
                       THEN Undefined ELSE <<ToPaise(expense.splitTotal[1])>>,
   splitPeople     |-> NumberOrUndefined(expense.splitPeople),
   splitShares     |-> expense.splitShares,
   cancelledAt     |-> Undefined,
   cancelledReason |-> Undefined]

\* mapOrderToExpense(order)
mapOrderToExpense(order) ==
  [id              |-> order.id,
   call            |-> order.call,
   foodName        |-> order.foodName,
   amount          |-> DFromRat(order.amount, 100),
   date            |-> order.orderDate,
   status          |-> IF order.status = NoText THEN "completed" ELSE order.status,
   transactionType |-> IF order.transactionType = NoText THEN "expense"
                       ELSE order.transactionType,
   isSplit         |-> order.isSplit,
   splitTotal      |-> IF order.splitTotal = Undefined \/ order.splitTotal = <<0>>
                       THEN Undefined ELSE <<DFromRat(order.splitTotal[1], 100)>>,
   splitPeople     |-> NumberOrUndefined(order.splitPeople),
   splitShares     |-> order.splitShares,
   cancelledAt     |-> order.cancelledAt,
   cancelledReason |-> TextOrUndefined(order.cancelledReason)]

\* fetchExpenses: select * from food_orders order by order_date descending,
\* mapped; a later insert carries a later order_date
FetchedExpenses(fo) ==
  [i \in 1..Len(fo) |-> mapOrderToExpense(fo[Len(fo) + 1 - i])]

\* cancel_expense(p_expense_id, p_reason) run at time t: the table after the
\* UPDATE ... WHERE id = p_expense_id AND status IN ('pending', 'completed'),
\* and FOUND
cancel_expense(fo, t, p_expense_id, p_reason) ==
  LET hit == {i \in 1..Len(fo) : fo[i].id = p_expense_id
                                 /\ fo[i].status \in {"pending", "completed"}}
  IN  [foodOrders |-> [i \in 1..Len(fo) |->
                         IF i \in hit
                         THEN [fo[i] EXCEPT !.status = "cancelled", !.cancelledAt = <<t>>,
                                            !.cancelledReason = p_reason]
                         ELSE fo[i]],
       found      |-> hit # {}]

\* updateExpense, locally: { ...expense, ...updates } for the entry with the id
ApplyUpdates(prev, id, updates) ==
  [i \in 1..Len(prev) |->
     IF prev[i].id = id
     THEN [f \in DOMAIN prev[i] |-> IF f \in DOMAIN updates THEN updates[f] ELSE prev[i][f]]
     ELSE prev[i]]

\* updateExpense builds updateData from these keys of the updates only
\* (cancelledAt and cancelledReason are not among them)
UpdatableFields == {"foodName", "status", "transactionType", "isSplit"}

\* updateExpense, remotely: update food_orders set updateData where id = id
RemoteUpdate(fo, id, updates) ==
  [i \in 1..Len(fo) |->
     IF fo[i].id = id
     THEN [f \in DOMAIN fo[i] |-> IF f \in DOMAIN updates \cap UpdatableFields
                                  THEN updates[f] ELSE fo[i][f]]
     ELSE fo[i]]

\* the rows with the given id, as realtime events of the given type
EventsFor(fo, id, eventType) ==
  LET F[n \in 0..Len(fo)] ==
        IF n = 0 THEN << >>
        ELSE IF fo[n].id = id THEN Append(F[n - 1], [eventType |-> eventType, new |-> fo[n]])
             ELSE F[n - 1]
  IN  F[Len(fo)]

\* addExpense, after a successful insert:
\* prev.map(e => e.id === tempId ? { ...e, id: data.id } : e)
ReplaceTempId(prev, tempId, id) ==
  [i \in 1..Len(prev) |-> IF prev[i].id = tempId THEN [prev[i] EXCEPT !.id = id]
                          ELSE prev[i]]

\* realtime INSERT handler:
\* prev.some(e => e.id === newExpense.id) ? prev : [newExpense, ...prev]
MergeInserted(prev, newExpense) ==
  IF \E i \in 1..Len(prev) : prev[i].id = newExpense.id THEN prev
  ELSE <<newExpense>> \o prev

\* realtime UPDATE handler: prev.map(e => e.id === updated.id ? updated : e)
MergeUpdated(prev, updatedExpense) ==
  [i \in 1..Len(prev) |-> IF prev[i].id = updatedExpense.id THEN updatedExpense
                          ELSE prev[i]]

\* realtime DELETE handler and deleteExpense: prev.filter(e => e.id !== id)
WithoutId(prev, id) == SelectSeq(prev, LAMBDA e : e.id # id)


(***************************************************************************)
(* Budget usage: function public.get_budget_usage over public.user_budgets *)
(* and public.food_orders.  Amounts are DECIMAL(10,2) and are counted in   *)
(* paise; percentages are counted in hundredths of a percent.  Days are    *)
(* numbered from a Monday that is the first day of a 30-day month.         *)
(***************************************************************************)
Periods == {"daily", "weekly", "monthly"}

\* DATE_TRUNC('week', d) and DATE_TRUNC('month', d)
DateTruncWeek(d) == d - ((d - 1) % 7)

DateTruncMonth(d) == d - ((d - 1) % 30)

\* the first day of the period p_period that contains CURRENT_DATE
PeriodStart(p_period, currentDate) ==
  CASE p_period = "daily"  -> currentDate
    [] p_period = "weekly" -> DateTruncWeek(currentDate)
    [] OTHER               -> DateTruncMonth(currentDate)

\* the budget of a user_budgets row for the period
PeriodBudget(ub, p_period) ==
  CASE p_period = "daily"  -> ub.daily
    [] p_period = "weekly" -> ub.weekly
    [] OTHER               -> ub.monthly

\* the defaults of get_budget_usage when no budget exists: 400, 2500, 10000
DefaultBudget(p_period) ==
  CASE p_period = "daily"  -> 40000
    [] p_period = "weekly" -> 250000
    [] OTHER               -> 1000000

\* the default threshold of get_budget_usage and of column alert_threshold
DefaultThreshold == 8000

\* the rows of user_budgets that WHERE ub.user_id = p_user_id OR ub.user_id
\* IS NULL selects (p_user_id NULL matches no row by equality)
BudgetRowsOf(budgets, p_user_id) ==
  {i \in 1..Len(budgets) :
     \/ budgets[i].userId = p_user_id /\ p_user_id # NoUser
     \/ budgets[i].userId = NoUser}

\* the WHERE clause of the sum with the transaction type left out
Counted_any_type(row, p_user_id, p_period, currentDate) ==
  /\ \/ row.userId = p_user_id /\ p_user_id # NoUser
     \/ row.userId = NoUser
  /\ (IF row.status = NoText THEN "completed" ELSE row.status) = "completed"
  /\ row.orderDate >= PeriodStart(p_period, currentDate)

\* the WHERE clause of the sum over food_orders: the row is the user's (or
\* has no owner), COALESCE(status, 'completed') = 'completed',
\* COALESCE(transaction_type, 'expense') = 'expense', and order_date is not
\* before the period's start
Counted(row, p_user_id, p_period, currentDate) ==
  /\ \/ row.userId = p_user_id /\ p_user_id # NoUser
     \/ row.userId = NoUser
  /\ (IF row.status = NoText THEN "completed" ELSE row.status) = "completed"
  /\ (IF row.transactionType = NoText THEN "expense" ELSE row.transactionType) = "expense"
  /\ row.orderDate >= PeriodStart(p_period, currentDate)

\* COALESCE(SUM(fo.amount), 0) over rows 1..n of food_orders
RECURSIVE SpentUpTo(_, _, _, _, _)
SpentUpTo(fo, n, p_user_id, p_period, currentDate) ==
  IF n = 0 THEN 0
  ELSE SpentUpTo(fo, n - 1, p_user_id, p_period, currentDate)
       + (IF Counted(fo[n], p_user_id, p_period, currentDate) THEN fo[n].amount ELSE 0)

\* (v_spent / v_budget) * 100 for v_budget # 0, in hundredths of a percent:
\* the whole hundredths q and the rest r / v_budget of a hundredth
PercentOf(v_spent, v_budget) ==
  LET whole == (v_spent * 100) \div v_budget
      rest  == (v_spent * 100) % v_budget
  IN  [q |-> whole * 100 + (rest * 100) \div v_budget,
       r |-> (rest * 100) % v_budget,
       d |-> v_budget]

\* ROUND(x, 2) of a non-negative NUMERIC: half rounds away from zero
ROUND2(x) == x.q + (IF 2 * x.r >= x.d THEN 1 ELSE 0)

\* a nullable column holds SqlNull or <<value>>
SqlNull == << >>

\* the row get_budget_usage(p_user_id, p_period) returns; ub is << >> when
\* the WHERE selects no row of user_budgets, else <<the row LIMIT 1 picked>>.
\* NULLIF(v_budget, 0) makes percentage_used and should_alert NULL for a
\* budget of 0.
get_budget_usage(ub, fo, p_user_id, p_period, currentDate) ==
  LET v_budget    == IF ub = << >> THEN DefaultBudget(p_period)
                     ELSE PeriodBudget(ub[1], p_period)
      v_threshold == IF ub = << >> THEN DefaultThreshold ELSE ub[1].alertThreshold
      v_spent     == SpentUpTo(fo, Len(fo), p_user_id, p_period, currentDate)
  IN  [total_spent     |-> v_spent,
       budget_limit    |-> v_budget,
       percentage_used |-> IF v_budget = 0 THEN SqlNull
                           ELSE <<ROUND2(PercentOf(v_spent, v_budget))>>,
       remaining       |-> v_budget - v_spent,
       alert_threshold |-> v_threshold,
       should_alert    |-> IF v_budget = 0 THEN SqlNull
                           ELSE <<PercentOf(v_spent, v_budget).q >= v_threshold>>]

\* fetchBudgetUsage: Number(x) and Boolean(x) of the returned columns
NumberOf(x) == IF x = SqlNull THEN 0 ELSE x[1]

BooleanOf(x) == IF x = SqlNull THEN FALSE ELSE x[1]

\* fetchBudgetUsage: the BudgetUsage built from the returned row
BudgetUsageData(usage, period) ==
  [period         |-> period,
   totalSpent     |-> usage.total_spent,
   budgetLimit    |-> usage.budget_limit,
   percentageUsed |-> NumberOf(usage.percentage_used),
   remaining      |-> usage.remaining,
   alertThreshold |-> usage.alert_threshold,
   shouldAlert    |-> BooleanOf(usage.should_alert)]

\* an alert rule without the 'exceeded' notification
AlertToast_warning_only(data, enableAlerts) ==
  IF data.shouldAlert /\ enableAlerts
  THEN IF data.percentageUsed >= data.alertThreshold THEN "warning" ELSE "none"
  ELSE "none"

\* fetchBudgetUsage: the alert raised for a BudgetUsage
AlertToast(data, enableAlerts) ==
  IF data.shouldAlert /\ enableAlerts
  THEN IF data.percentageUsed >= 10000 THEN "error"
       ELSE IF data.percentageUsed >= data.alertThreshold THEN "warning" ELSE "none"
  ELSE "none"

\* the rows of user_budgets LIMIT 1 may pick for p_user_id, each as <<row>>;
\* << >> alone when the WHERE selects none
BudgetRowChoices(budgets, p_user_id) ==
  IF BudgetRowsOf(budgets, p_user_id) = {} THEN {<< >>}
  ELSE {<<budgets[i]>> : i \in BudgetRowsOf(budgets, p_user_id)}

\* the answers of the get_budget_usage call to canAddExpense: the row, an
\* error whose message names the function, another error
RpcErrors == {"none", "function", "other"}

\* canAddExpense(amount) with budget.enableAlerts = enableAlerts, when the
\* get_budget_usage call is answered with error rpcError or the row usage.
\* A budget limit of 0 makes newPercentage Infinity (NaN for a total of 0).
canAddExpense(enableAlerts, rpcError, usage, amount) ==
  IF ~enableAlerts THEN [allowed |-> TRUE, message |-> FALSE]
  ELSE IF rpcError # "none" THEN [allowed |-> TRUE, message |-> FALSE]
  ELSE
    LET newTotal      == DAdd(DFromRat(usage.total_spent, 100), amount)
        budgetLimit   == DFromRat(usage.budget_limit, 100)
        newPercentage == DMulInt(DDiv(newTotal, budgetLimit), 100)
        exceeds       == IF budgetLimit.m = << >> THEN newTotal.m # << >> /\ newTotal.sign > 0
                         ELSE CmpRat(newPercentage, 100, 1) > 0
    IN  IF exceeds THEN [allowed |-> FALSE, message |-> TRUE]
        ELSE [allowed |-> TRUE, message |-> FALSE]

(***************************************************************************)
(* Bounds of the model.                                                    *)
(***************************************************************************)
\* amounts passed to the split calculator: 1 .. MaxSplitPaise paise
MaxSplitPaise == 60

\* people counts passed to the split calculator: 2 .. MaxPeople
MaxPeople == 4

\* orders the store can hold; order ids are 1 .. MaxOrders
MaxOrders == 2

\* last instant of the store's clock at which a request may start
MaxTime == 5

\* addExpense calls made by the session
MaxCalls == 2

\* last value of the client's millisecond clock, Date.now()
MaxClock == 2

\* cancel, status and delete operations on expenses
MaxOps == 2

\* rows of food_orders when budget usage is computed
MaxRows == 4

\* rows of food_orders when the budget pre-check is computed
MaxPreCheckRows == 2

\* setBudget calls in progress side by side
MaxBudgetCalls == 2

\* submissions of the add-expense form
MaxSubmits == 1

\* sessions that create orders side by side
MaxSessions == 2

(***************************************************************************)
(* State.                                                                  *)
(***************************************************************************)
VARIABLES
  splitCall,    \* the last split call: [fn, total (paise), people], or NoCall
  tsShares,     \* result of the last splitExpenseEqually call (binary64)
  sqlShares,    \* result of the last split_expense_equally call (paise)
  orders,       \* table public.orders: the rows, indexed by order id
  history,      \* table public.order_status_history, in insertion order
  now,          \* the store's clock, now()
  live,         \* the mounted LiveOrderTracking view, or NoLive
  lastOp,       \* the last client operation, its arguments and its toasts
  sessionUser,  \* the authenticated user of the session, or NoUser
  clock,        \* the client's clock, Date.now()
  foodOrders,   \* table public.food_orders, in insertion order
  expenses,     \* useFoodExpenses: the local collection, newest first
  addCalls,     \* addExpense calls awaiting the insert's outcome
  rtQueue,      \* realtime events not yet delivered to the session
  nCalls,       \* addExpense calls made so far
  nOps,         \* form submissions, cancel, status and delete operations so far
  expenseOp,    \* the expense operation completed last and its toasts
  deletedTemp,  \* addExpense calls whose entry was deleted before they returned
  today,        \* CURRENT_DATE, and the day of new Date()
  userBudgets,  \* table public.user_budgets
  budgetCalls,  \* the setBudget calls that have not finished
  budgetUsage,  \* useFoodExpenses: the BudgetUsage of the last fetch
  budgetToast,  \* the alert fetchBudgetUsage raised last
  preCheck,     \* the last canAddExpense call and its result
  flows,        \* per session, the order creation it is in the middle of
  localOrders,  \* per session, the orders collection of useOrderTracking
  orderEvents   \* per session, the realtime events on orders not yet handled

splitVars == <<splitCall, tsShares, sqlShares>>

orderVars == <<orders, history, now, live, lastOp, flows, localOrders, orderEvents>>

expenseVars == <<sessionUser, clock, foodOrders, expenses, addCalls, rtQueue, nCalls,
                 nOps, expenseOp, deletedTemp>>

budgetVars == <<today, userBudgets, budgetCalls, budgetUsage, budgetToast, preCheck>>

vars == <<splitCall, tsShares, sqlShares, orders, history, now, live, lastOp,
          sessionUser, clock, foodOrders, expenses, addCalls, rtQueue, nCalls,
          nOps, expenseOp, today, userBudgets, budgetCalls, budgetUsage, budgetToast, preCheck,
          flows, deletedTemp, localOrders, orderEvents>>

NoCall == [fn |-> "none", total |-> 0, people |-> 0]

NoLive == [orderId |-> 0, currentIndex |-> 0, isCancelled |-> FALSE, fetched |-> FALSE]

NoOp == [op |-> "none", orderId |-> 0, arg |-> NoText, at |-> 0, toasts |-> << >>]

\* a session that is not creating an order
NoFlow == [pc |-> "idle", kind |-> "none", orderNumber |-> << >>, orderId |-> 0]

Sessions == 1..MaxSessions

\* auth.uid() / supabase.auth.getUser() of a session: the odd sessions are
\* signed in as the users 1, 2, ..., the even sessions are anonymous
auth_uid(s) == IF s % 2 = 1 THEN (s + 1) \div 2 ELSE NoUser

InitSplit ==
  /\ splitCall = NoCall
  /\ tsShares = << >>
  /\ sqlShares = << >>

InitOrder ==
  /\ orders = << >>
  /\ history = << >>
  /\ now = 1
  /\ live = NoLive
  /\ lastOp = NoOp
  /\ flows = [s \in Sessions |-> NoFlow]
  /\ localOrders = [s \in Sessions |-> << >>]
  /\ orderEvents = [s \in Sessions |-> << >>]

\* no expense operation has completed yet; seq alternates with every operation
NoExpenseOp ==
  [seq |-> 0, op |-> "none", id |-> TempId(0), arg |-> Undefined, ok |-> TRUE,
   toasts |-> << >>]

InitExpense ==
  /\ nOps = 0
  /\ expenseOp = NoExpenseOp
  /\ deletedTemp = {}
  /\ sessionUser \in {NoUser, 1}
  /\ clock = 1
  /\ foodOrders = << >>
  /\ expenses = << >>
  /\ addCalls = {}
  /\ rtQueue = << >>
  /\ nCalls = 0

\* the day the sessions run: the second day of a month, a Wednesday
TodayInputs == {32}

\* budgetUsage before the first fetch (null)
NoUsage ==
  [period |-> NoText, totalSpent |-> 0, budgetLimit |-> 0, percentageUsed |-> 0,
   remaining |-> 0, alertThreshold |-> 0, shouldAlert |-> FALSE]

\* no canAddExpense call has been made yet
NoPreCheck ==
  [amount |-> 0, enableAlerts |-> TRUE, period |-> NoText, rpcError |-> "none",
   spent |-> 0, limit |-> 0, allowed |-> TRUE, message |-> FALSE]

InitBudget ==
  /\ today \in TodayInputs
  /\ userBudgets = << >>
  /\ budgetCalls = {}
  /\ budgetUsage = NoUsage
  /\ budgetToast = "none"
  /\ preCheck = NoPreCheck

Init == InitSplit /\ InitOrder /\ InitExpense /\ InitBudget

(***************************************************************************)
(* Split calculator: the two implementations applied to an amount typed as *)
(* a decimal with two places (parseFloat of the amount field).             *)
(***************************************************************************)
CallSplitExpenseEqually(total, people) ==
  /\ splitCall' = [fn |-> "splitExpenseEqually", total |-> total, people |-> people]
  /\ tsShares' = splitExpenseEqually(DFromRat(total, 100), people)
  /\ sqlShares' = << >>
  /\ UNCHANGED <<orderVars, expenseVars, budgetVars>>

CallSqlSplitExpenseEqually(total, people) ==
  /\ splitCall' = [fn |-> "split_expense_equally", total |-> total, people |-> people]
  /\ sqlShares' = split_expense_equally(total, people)
  /\ tsShares' = << >>
  /\ UNCHANGED <<orderVars, expenseVars, budgetVars>>

NextSplit ==
  \/ \E total \in 1..MaxSplitPaise, people \in 2..MaxPeople :
       CallSplitExpenseEqually(total, people)
  \/ \E total \in 1..MaxSplitPaise, people \in 2..MaxPeople :
       CallSqlSplitExpenseEqually(total, people)

SpecSplit == Init /\ [][NextSplit]_vars


(***************************************************************************)
(* Order tracking: the operations of useOrderTracking and the cancel       *)
(* button of LiveOrderTracking, each run to completion by one session      *)
(* whose requests reach the store (the orders are the session's own, so    *)
(* the row-level policies admit them).  Every request is stamped with the  *)
(* store's clock, which moves on between requests.                         *)
(***************************************************************************)
\* statuses passed to updateOrderStatus
NewStatusInputs ==
  {"placed", "confirmed", "preparing", "delivered", "cancelled", "failed"}

\* cancellation reasons typed by the customer
Reasons == {"changed my mind"}

\* star ratings offered by the rating dialog; 0 is "none selected"
Ratings == {0, 3, 5}

\* review texts after trim(); NoText is the empty review
Reviews == {NoText, "tasty"}

OrderIdInputs == 1..MaxOrders

\* createOrder: generate the order number, insert the order, then record
\* the initial history entry
CreateOrder ==
  /\ now <= MaxTime
  /\ Len(orders) < MaxOrders
  /\ LET id       == Len(orders) + 1
         inserted == Append(orders, NewOrderRow(now, generate_order_number(orders),
                                                 auth_uid(1)))
         res      == update_order_status(inserted, history, now + 1, id, "placed",
                                         "Order placed successfully")
     IN  /\ orders' = res.orders
         /\ history' = res.history
         /\ lastOp' = [op |-> "createOrder", orderId |-> id, arg |-> "placed",
                       at |-> now, toasts |-> <<"success">>]
  /\ now' = now + 2
  /\ UNCHANGED <<live, flows, localOrders, orderEvents, splitVars,
               expenseVars, budgetVars>>

\* updateOrderStatus(input): the rpc, then a refetch and a success toast, or
\* an error toast when the rpc reports an error
UpdateOrderStatus(orderId, newStatus, message) ==
  /\ now <= MaxTime
  /\ LET res == update_order_status(orders, history, now, orderId, newStatus, message)
     IN  /\ orders' = res.orders
         /\ history' = res.history
         /\ lastOp' = [op |-> "updateOrderStatus", orderId |-> orderId,
                       arg |-> newStatus, at |-> now,
                       toasts |-> IF res.error THEN <<"error">> ELSE <<"success">>]
  /\ now' = now + 1
  /\ UNCHANGED <<live, flows, localOrders, orderEvents, splitVars,
               expenseVars, budgetVars>>

\* cancelOrder(orderId, reason): updateOrderStatus to 'cancelled' (which
\* catches its own errors), then the update of the cancellation columns;
\* rpcOk is whether the rpc request was carried out
CancelOrder(orderId, reason, rpcOk) ==
  /\ now <= MaxTime
  /\ LET res == IF rpcOk
                THEN update_order_status(orders, history, now, orderId, "cancelled", reason)
                ELSE [orders |-> orders, history |-> history, error |-> TRUE,
                      found |-> FALSE]
     IN  /\ orders' = IF orderId \in DOMAIN res.orders
                      THEN [res.orders EXCEPT ![orderId].cancellationReason = reason,
                                              ![orderId].cancelledBy = "customer"]
                      ELSE res.orders
         /\ history' = res.history
         /\ lastOp' = [op |-> "cancelOrder", orderId |-> orderId, arg |-> reason,
                       at |-> now,
                       toasts |-> <<IF res.error THEN "error" ELSE "success",
                                    "success">>]
  /\ now' = now + 2
  /\ UNCHANGED <<live, flows, localOrders, orderEvents, splitVars,
               expenseVars, budgetVars>>

\* OrderTrackingView.handleRateOrder and rateOrder(input): without a selected
\* rating the handler only toasts; otherwise the rating is written (an empty
\* review is sent as undefined, which leaves the column alone)
HandleRateOrder(orderId, rating, review) ==
  /\ now <= MaxTime
  /\ IF rating = 0
     THEN /\ lastOp' = [op |-> "rateOrder", orderId |-> orderId, arg |-> "rejected",
                        at |-> now, toasts |-> <<"error">>]
          /\ UNCHANGED <<orders, now>>
     ELSE /\ orders' = IF orderId \in DOMAIN orders
                       THEN [orders EXCEPT
                               ![orderId].rating = rating,
                               ![orderId].review = IF review = NoText THEN @ ELSE review]
                       ELSE orders
          /\ lastOp' = [op |-> "rateOrder", orderId |-> orderId, arg |-> "sent",
                        at |-> now, toasts |-> <<"success">>]
          /\ now' = now + 1
  /\ UNCHANGED <<history, live, flows, localOrders, orderEvents, splitVars,
               expenseVars, budgetVars>>

\* UserOrdersView "Track Order": shown for an order that is not delivered,
\* cancelled or failed; mounts LiveOrderTracking at 'order_received'
MountLive(orderId) ==
  /\ live = NoLive
  /\ orderId \in DOMAIN orders
  /\ orders[orderId].status \notin {"delivered", "cancelled", "failed"}
  /\ live' = [orderId |-> orderId, currentIndex |-> 1, isCancelled |-> FALSE,
              fetched |-> FALSE]
  /\ UNCHANGED <<orders, history, now, lastOp, flows, localOrders, orderEvents, splitVars,
               expenseVars, budgetVars>>

\* LiveOrderTracking fetchOrderStatus (on mount): a cancelled order switches
\* the view to its cancelled page
LiveFetchOrderStatus ==
  /\ live # NoLive
  /\ ~live.fetched
  /\ live' = [live EXCEPT !.fetched = TRUE,
                          !.isCancelled = @ \/ orders[live.orderId].status = "cancelled"]
  /\ UNCHANGED <<orders, history, now, lastOp, flows, localOrders, orderEvents, splitVars,
               expenseVars, budgetVars>>

\* LiveOrderTracking demo timer: every 8 s the displayed status moves one
\* step along statusSequence, whatever the order's stored status
LiveTimer ==
  /\ live # NoLive
  /\ live.currentIndex < Len(statusSequence)
  /\ live' = [live EXCEPT !.currentIndex = @ + 1]
  /\ UNCHANGED <<orders, history, now, lastOp, flows, localOrders, orderEvents, splitVars,
               expenseVars, budgetVars>>

\* LiveOrderTracking "Cancel Order" button and handleCancelOrder: the button
\* is rendered unless the cancelled page is shown or the displayed status is
\* delivered/cancelled; the handler writes status = 'cancelled' directly
LiveHandleCancelOrder ==
  /\ now <= MaxTime
  /\ live # NoLive
  /\ ~live.isCancelled
  /\ statusSequence[live.currentIndex] \notin {"delivered", "cancelled"}
  /\ orders' = [orders EXCEPT ![live.orderId].status = "cancelled"]
  /\ live' = [live EXCEPT !.isCancelled = TRUE]
  /\ lastOp' = [op |-> "handleCancelOrder", orderId |-> live.orderId,
                arg |-> NoText, at |-> now, toasts |-> <<"success">>]
  /\ now' = now + 1
  /\ UNCHANGED <<history, flows, localOrders, orderEvents, splitVars,
               expenseVars, budgetVars>>

\* the tracking modal is closed (onClose, or the reload after a cancel)
LiveClose ==
  /\ live # NoLive
  /\ live' = NoLive
  /\ UNCHANGED <<orders, history, now, lastOp, flows, localOrders, orderEvents, splitVars,
               expenseVars, budgetVars>>

Next ==
  \/ CreateOrder
  \/ \E o \in OrderIdInputs, st \in NewStatusInputs :
       UpdateOrderStatus(o, st, NoText)
  \/ \E o \in OrderIdInputs, r \in Reasons, rpcOk \in BOOLEAN : CancelOrder(o, r, rpcOk)
  \/ \E o \in OrderIdInputs, rt \in Ratings, rv \in Reviews :
       HandleRateOrder(o, rt, rv)
  \/ \E o \in OrderIdInputs : MountLive(o)
  \/ LiveFetchOrderStatus
  \/ LiveTimer
  \/ LiveHandleCancelOrder
  \/ LiveClose

Spec == Init /\ [][Next]_vars

(***************************************************************************)
(* Order creation by several sessions side by side.  createOrder and the   *)
(* payment handler of the dish modal (handlePaymentSuccess) make the same  *)
(* three requests, each awaited: the rpc generate_order_number, the insert *)
(* into orders, the rpc update_order_status that records 'placed'.         *)
(* Requests of different sessions reach the store in any order.            *)
(***************************************************************************)
CreationKinds == {"createOrder", "handlePaymentSuccess"}

\* mapDbToOrder(row): the Order of a row, with the fields followed here
mapDbToOrder(id, row) == [id |-> id, userId |-> row.userId, status |-> row.status]

\* policy "Anyone can view orders": the USING clause for a session whose
\* auth.uid() is uid (a comparison with NULL is not true)
CanViewOrder(uid, row) ==
  \/ (uid # NoUser /\ row.userId # NoUser /\ uid = row.userId)
  \/ (uid = NoUser /\ row.userId = NoUser)
  \/ row.userId = NoUser

\* the channel 'order_updates' (event '*' on public.orders, no filter): a
\* change of a row is delivered to every session the policy lets read it
Broadcast(events, eventType, id, row) ==
  [s \in Sessions |->
     IF CanViewOrder(auth_uid(s), row)
     THEN Append(events[s], [eventType |-> eventType, new |-> mapDbToOrder(id, row)])
     ELSE events[s]]

\* creations that hold an order number and have not inserted yet
Numbered == {s \in Sessions : flows[s].pc = "numbered"}

\* first request: the order number is read from the store
GenerateOrderNumber(s, kind) ==
  /\ now <= MaxTime
  /\ flows[s].pc \in {"idle", "done", "rejected"}
  /\ Len(orders) + Cardinality(Numbered) < MaxOrders
  /\ flows' = [flows EXCEPT ![s] = [pc |-> "numbered", kind |-> kind,
                                    orderNumber |-> generate_order_number(orders),
                                    orderId |-> 0]]
  /\ UNCHANGED <<orders, history, now, live, lastOp, localOrders, orderEvents, splitVars,
               expenseVars, budgetVars>>

\* second request: the insert, which the UNIQUE constraint on order_number
\* rejects when a stored order has the number; createOrder then toasts
\* 'Failed to create order', the payment handler 'Order placed for ...'
InsertOrder(s) ==
  /\ now <= MaxTime
  /\ flows[s].pc = "numbered"
  /\ IF \E o \in DOMAIN orders : orders[o].orderNumber = flows[s].orderNumber
     THEN /\ flows' = [flows EXCEPT ![s].pc = "rejected"]
          /\ lastOp' = [op |-> flows[s].kind, orderId |-> 0, arg |-> "rejected",
                        at |-> now,
                        toasts |-> IF flows[s].kind = "createOrder" THEN <<"error">>
                                   ELSE <<"success">>]
          /\ UNCHANGED <<orders, orderEvents>>
     ELSE /\ orders' = Append(orders, NewOrderRow(now, flows[s].orderNumber, auth_uid(s)))
          /\ flows' = [flows EXCEPT ![s].pc = "inserted", ![s].orderId = Len(orders) + 1]
          /\ orderEvents' = Broadcast(orderEvents, "INSERT", Len(orders'), orders'[Len(orders')])
          /\ UNCHANGED lastOp
  /\ now' = now + 1
  /\ UNCHANGED <<history, live, localOrders, splitVars, expenseVars, budgetVars>>

\* the answer of the insert arrives: createOrder prepends the inserted row
\* to its collection; then the third request, the initial history entry, and
\* the success toast
RecordPlaced(s) ==
  /\ now <= MaxTime
  /\ flows[s].pc = "inserted"
  /\ LET res == update_order_status(orders, history, now, flows[s].orderId, "placed",
                                    "Order placed successfully")
     IN  /\ orders' = res.orders
         /\ history' = res.history
         /\ orderEvents' = Broadcast(orderEvents, "UPDATE", flows[s].orderId,
                                     res.orders[flows[s].orderId])
  /\ localOrders' =
       IF flows[s].kind = "createOrder"
       THEN [localOrders EXCEPT
               ![s] = <<mapDbToOrder(flows[s].orderId,
                                     NewOrderRow(now, flows[s].orderNumber, auth_uid(s)))>> \o @]
       ELSE localOrders
  /\ flows' = [flows EXCEPT ![s].pc = "done"]
  /\ lastOp' = [op |-> flows[s].kind, orderId |-> flows[s].orderId, arg |-> "placed",
                at |-> now, toasts |-> <<"success">>]
  /\ now' = now + 1
  /\ UNCHANGED <<live, splitVars, expenseVars, budgetVars>>

NextCreate ==
  \/ \E s \in Sessions, kind \in CreationKinds : GenerateOrderNumber(s, kind)
  \/ \E s \in Sessions : InsertOrder(s)
  \/ \E s \in Sessions : RecordPlaced(s)
  \/ \E o \in OrderIdInputs, st \in NewStatusInputs :
       UpdateOrderStatus(o, st, NoText)
  \/ \E o \in OrderIdInputs, r \in Reasons, rpcOk \in BOOLEAN : CancelOrder(o, r, rpcOk)

SpecCreate == Init /\ [][NextCreate]_vars

(***************************************************************************)
(* The orders collection of useOrderTracking in every session: filled by   *)
(* fetchOrders, by createOrder and by the realtime handler of the channel  *)
(* 'order_updates'.                                                        *)
(***************************************************************************)
\* the ids of the rows in S by placed_at, latest first
RECURSIVE ByPlacedAtDesc(_, _)
ByPlacedAtDesc(ords, S) ==
  IF S = {} THEN << >>
  ELSE LET o == CHOOSE x \in S :
                  \A y \in S : \/ ords[x].placedAt > ords[y].placedAt
                                \/ (ords[x].placedAt = ords[y].placedAt /\ x >= y)
       IN  <<o>> \o ByPlacedAtDesc(ords, S \ {o})

\* the rows fetchOrders asks for: .eq('user_id', user.id) when signed in,
\* .is('user_id', null) otherwise, .order('placed_at', descending), mapped
FetchedOrders(ords, uid) ==
  LET ids == ByPlacedAtDesc(ords, {o \in DOMAIN ords : ords[o].userId = uid})
  IN  [i \in 1..Len(ids) |-> mapDbToOrder(ids[i], ords[ids[i]])]

\* fetchOrders of a session (on mount)
FetchOrders(s) ==
  /\ localOrders' = [localOrders EXCEPT ![s] = FetchedOrders(orders, auth_uid(s))]
  /\ UNCHANGED <<orders, history, now, live, lastOp, flows, orderEvents, splitVars,
                 expenseVars, budgetVars>>

\* the setOrders of the realtime handler: the entry with the order's id is
\* replaced, an order not in the collection is prepended
MergeOrder(prev, updatedOrder) ==
  IF \E i \in 1..Len(prev) : prev[i].id = updatedOrder.id
  THEN [prev EXCEPT ![CHOOSE i \in 1..Len(prev) :
                        /\ prev[i].id = updatedOrder.id
                        /\ \A j \in 1..(i - 1) : prev[j].id # updatedOrder.id] = updatedOrder]
  ELSE <<updatedOrder>> \o prev

\* the realtime handler of a session takes the next event (INSERT or UPDATE)
HandleOrderEvent(s) ==
  /\ orderEvents[s] # << >>
  /\ localOrders' = [localOrders EXCEPT ![s] = MergeOrder(@, Head(orderEvents[s]).new)]
  /\ orderEvents' = [orderEvents EXCEPT ![s] = Tail(@)]
  /\ UNCHANGED <<orders, history, now, live, lastOp, flows, splitVars, expenseVars,
                 budgetVars>>

NextTracking ==
  \/ \E s \in Sessions, kind \in CreationKinds : GenerateOrderNumber(s, kind)
  \/ \E s \in Sessions : InsertOrder(s)
  \/ \E s \in Sessions : RecordPlaced(s)
  \/ \E s \in Sessions : FetchOrders(s)
  \/ \E s \in Sessions : HandleOrderEvent(s)

SpecTracking == Init /\ [][NextTracking]_vars


(***************************************************************************)
(* Expense ledger: addExpense with its suspension point (the remote        *)
(* insert), the store's side of the insert, and the realtime INSERT        *)
(* subscription.  The insert's response and the realtime event travel on   *)
(* separate connections and reach the session in either order.             *)
(***************************************************************************)
\* expenses submitted by the add forms
ExpenseInputs ==
  {[foodName |-> "dosa", amount |-> DFromRat(120, 1), date |-> today,
    status |-> "completed", transactionType |-> "expense", isSplit |-> FALSE,
    splitTotal |-> Undefined, splitPeople |-> Undefined, splitShares |-> Undefined,
    cancelledAt |-> Undefined, cancelledReason |-> Undefined],
   [foodName |-> "thali", amount |-> DFromRat(45, 1), date |-> today,
    status |-> "completed", transactionType |-> "income", isSplit |-> FALSE,
    splitTotal |-> Undefined, splitPeople |-> Undefined, splitShares |-> Undefined,
    cancelledAt |-> Undefined, cancelledReason |-> Undefined]}

\* an expense operation on id with argument arg completes with these toasts
Done(op, id, arg, ok, toasts) ==
  expenseOp' = [seq |-> 1 - expenseOp.seq, op |-> op, id |-> id, arg |-> arg,
                ok |-> ok, toasts |-> toasts]

\* time passes on the client
Tick ==
  /\ clock < MaxClock
  /\ clock' = clock + 1
  /\ UNCHANGED <<sessionUser, deletedTemp, foodOrders, expenses, addCalls, rtQueue, nCalls, nOps,
                 expenseOp, splitVars, orderVars, budgetVars>>

\* addExpense(expense) up to its await: the optimistic insert at the head
\* under the temporary id; without a user the call ends here with an error
\* toast, otherwise the insert request is under way
BeginAddExpense(expense) ==
  /\ nCalls' = nCalls + 1
  /\ expenses' = <<LocalExpense(expense, TempId(clock), nCalls + 1)>> \o expenses
  /\ addCalls' = IF sessionUser = NoUser THEN addCalls
                 ELSE addCalls \cup {[call |-> nCalls + 1, tempId |-> TempId(clock),
                                      expense |-> expense, pc |-> "sent",
                                      id |-> TempId(clock)]}

AddExpense(expense) ==
  /\ nCalls < MaxCalls
  /\ BeginAddExpense(expense)
  /\ IF sessionUser = NoUser THEN Done("addExpense", TempId(clock), Undefined, FALSE, <<"error">>)
     ELSE UNCHANGED expenseOp
  /\ UNCHANGED <<sessionUser, deletedTemp, clock, foodOrders, rtQueue, nOps, splitVars, orderVars,
                 budgetVars>>

\* the store executes the insert of call c: the row gets its id, the
\* realtime INSERT event is emitted and the response leaves for the client
RemoteInsert(c) ==
  /\ c.pc = "sent"
  /\ LET row == FoodOrderRow(c.expense, ServerId(c.call), sessionUser, c.call)
     IN  /\ foodOrders' = Append(foodOrders, row)
         /\ rtQueue' = Append(rtQueue, [eventType |-> "INSERT", new |-> row])
         /\ addCalls' = (addCalls \ {c}) \cup {[c EXCEPT !.pc = "ok", !.id = row.id]}
  /\ UNCHANGED <<sessionUser, deletedTemp, clock, expenses, nCalls, nOps, expenseOp, splitVars,
                 orderVars, budgetVars>>

\* the insert of call c fails (the request is lost or the store rejects it)
RemoteInsertFails(c) ==
  /\ c.pc = "sent"
  /\ addCalls' = (addCalls \ {c}) \cup {[c EXCEPT !.pc = "error"]}
  /\ UNCHANGED <<sessionUser, deletedTemp, clock, foodOrders, expenses, rtQueue, nCalls, nOps,
                 expenseOp, splitVars, orderVars, budgetVars>>

\* addExpense resumes with the insert's outcome: on success the temporary id
\* is replaced by data.id and a success toast is shown; on error the entry
\* is left as it is and an error toast is shown
AddExpenseResume(c) ==
  /\ c.pc \in {"ok", "error"}
  /\ expenses' = IF c.pc = "ok" THEN ReplaceTempId(expenses, c.tempId, c.id)
                 ELSE expenses
  /\ addCalls' = addCalls \ {c}
  /\ Done("addExpense", c.tempId, Undefined, c.pc = "ok",
          IF c.pc = "ok" THEN <<"success">> ELSE <<"error">>)
  /\ UNCHANGED <<sessionUser, deletedTemp, clock, foodOrders, rtQueue, nCalls, nOps, splitVars,
                 orderVars, budgetVars>>

\* the realtime subscription delivers the oldest pending event, an INSERT
RealtimeInsert ==
  /\ rtQueue # << >>
  /\ Head(rtQueue).eventType = "INSERT"
  /\ expenses' = MergeInserted(expenses, mapOrderToExpense(Head(rtQueue).new))
  /\ rtQueue' = Tail(rtQueue)
  /\ UNCHANGED <<sessionUser, deletedTemp, clock, foodOrders, addCalls, nCalls, nOps, expenseOp,
                 splitVars, orderVars, budgetVars>>

\* ... an UPDATE
RealtimeUpdate ==
  /\ rtQueue # << >>
  /\ Head(rtQueue).eventType = "UPDATE"
  /\ expenses' = MergeUpdated(expenses, mapOrderToExpense(Head(rtQueue).new))
  /\ rtQueue' = Tail(rtQueue)
  /\ UNCHANGED <<sessionUser, deletedTemp, clock, foodOrders, addCalls, nCalls, nOps, expenseOp,
                 splitVars, orderVars, budgetVars>>

\* ... a DELETE (the event carries the old row)
RealtimeDelete ==
  /\ rtQueue # << >>
  /\ Head(rtQueue).eventType = "DELETE"
  /\ expenses' = WithoutId(expenses, Head(rtQueue).new.id)
  /\ rtQueue' = Tail(rtQueue)
  /\ UNCHANGED <<sessionUser, deletedTemp, clock, foodOrders, addCalls, nCalls, nOps, expenseOp,
                 splitVars, orderVars, budgetVars>>

\* the ids the expense views offer for an operation, and the inputs
LocalIds == {expenses[i].id : i \in 1..Len(expenses)}

ReasonInputs == {Undefined, <<"mistake">>}

ExpenseStatuses == {"pending", "completed", "failed", "cancelled"}

\* outcomes of the cancel_expense call: it runs; the store answers that the
\* function does not exist and the direct update then succeeds or fails;
\* another error
CancelOutcomes == {"ok", "noFunction", "noFunctionUpdateFails", "error"}

\* cancelExpense(id, reason).  An id that is not a UUID makes the call and
\* the direct update fail.  After a successful call the collection is
\* fetched anew and the budget usage is fetched with the budget settings of
\* the first render (monthly, alerts enabled).
CancelExpense(id, reason, outcome) ==
  /\ nOps < MaxOps
  /\ nOps' = nOps + 1
  /\ LET res == cancel_expense(foodOrders, now, id, reason)
         updates == [status |-> "cancelled", cancelledAt |-> <<clock>>,
                     cancelledReason |-> reason]
     IN  CASE outcome = "ok" /\ id.kind = "uuid" /\ res.found ->
                \E ub \in BudgetRowChoices(userBudgets, sessionUser) :
                  LET data == BudgetUsageData(
                                get_budget_usage(ub, res.foodOrders, sessionUser,
                                                 "monthly", today), "monthly")
                      alert == AlertToast(data, TRUE)
                  IN  /\ foodOrders' = res.foodOrders
                      /\ rtQueue' = rtQueue \o EventsFor(res.foodOrders, id, "UPDATE")
                      /\ expenses' = FetchedExpenses(res.foodOrders)
                      /\ budgetUsage' = data
                      /\ budgetToast' = alert
                      /\ Done("cancelExpense", id, reason, TRUE,
                              (IF alert = "none" THEN << >> ELSE <<alert>>) \o <<"success">>)
           [] outcome = "ok" /\ id.kind = "uuid" /\ ~res.found ->
                /\ Done("cancelExpense", id, reason, FALSE, <<"error">>)
                /\ UNCHANGED <<foodOrders, rtQueue, expenses, budgetUsage, budgetToast>>
           [] outcome = "noFunction" /\ id.kind = "uuid" ->
                /\ expenses' = ApplyUpdates(expenses, id, updates)
                /\ foodOrders' = RemoteUpdate(foodOrders, id, updates)
                /\ rtQueue' = rtQueue \o EventsFor(foodOrders', id, "UPDATE")
                /\ Done("cancelExpense", id, reason, TRUE, <<"success">>)
                /\ UNCHANGED <<budgetUsage, budgetToast>>
           [] outcome = "noFunctionUpdateFails" \/ (outcome = "noFunction" /\ id.kind # "uuid") ->
                /\ expenses' = ApplyUpdates(expenses, id, updates)
                /\ Done("cancelExpense", id, reason, FALSE, <<"error", "success">>)
                /\ UNCHANGED <<foodOrders, rtQueue, budgetUsage, budgetToast>>
           [] OTHER ->
                /\ Done("cancelExpense", id, reason, FALSE, <<"error">>)
                /\ UNCHANGED <<foodOrders, rtQueue, expenses, budgetUsage, budgetToast>>
  /\ UNCHANGED <<sessionUser, deletedTemp, clock, addCalls, nCalls, today, userBudgets, budgetCalls, preCheck,
                 splitVars, orderVars>>

\* updateExpenseStatus(id, status): updateExpense(id, { status }), whose
\* remote update succeeds or fails, then the success toast
UpdateExpenseStatus(id, status, remoteOk) ==
  /\ nOps < MaxOps
  /\ nOps' = nOps + 1
  /\ expenses' = ApplyUpdates(expenses, id, [status |-> status])
  /\ IF remoteOk /\ id.kind = "uuid"
     THEN /\ foodOrders' = RemoteUpdate(foodOrders, id, [status |-> status])
          /\ rtQueue' = rtQueue \o EventsFor(foodOrders', id, "UPDATE")
          /\ Done("updateExpenseStatus", id, <<status>>, TRUE, <<"success">>)
     ELSE /\ Done("updateExpenseStatus", id, <<status>>, FALSE, <<"error", "success">>)
          /\ UNCHANGED <<foodOrders, rtQueue>>
  /\ UNCHANGED <<sessionUser, deletedTemp, clock, addCalls, nCalls, splitVars, orderVars, budgetVars>>

\* the addExpense calls that have not returned yet and whose optimistic entry
\* carries the id
InFlightWith(id) ==
  {c.call : c \in {d \in addCalls : d.tempId = id /\ d.pc \in {"sent", "ok"}}}

\* a failed delete that does not refetch
DeleteExpense_no_refetch(id, remoteOk) ==
  /\ nOps < MaxOps
  /\ nOps' = nOps + 1
  /\ expenses' = WithoutId(expenses, id)
  /\ IF remoteOk /\ id.kind = "uuid"
     THEN /\ foodOrders' = WithoutId(foodOrders, id)
          /\ rtQueue' = rtQueue \o EventsFor(foodOrders, id, "DELETE")
          /\ Done("deleteExpense", id, Undefined, TRUE, <<"success">>)
     ELSE /\ Done("deleteExpense", id, Undefined, FALSE, <<"error">>)
          /\ UNCHANGED <<foodOrders, rtQueue>>
  /\ deletedTemp' = deletedTemp \cup InFlightWith(id)
  /\ UNCHANGED <<sessionUser, clock, addCalls, nCalls, splitVars, orderVars, budgetVars>>

\* deleteExpense(id): the entry is removed at once; when the remote delete
\* fails the collection is fetched anew
DeleteExpense(id, remoteOk) ==
  /\ nOps < MaxOps
  /\ nOps' = nOps + 1
  /\ IF remoteOk /\ id.kind = "uuid"
     THEN /\ expenses' = WithoutId(expenses, id)
          /\ foodOrders' = WithoutId(foodOrders, id)
          /\ rtQueue' = rtQueue \o EventsFor(foodOrders, id, "DELETE")
          /\ Done("deleteExpense", id, Undefined, TRUE, <<"success">>)
     ELSE /\ expenses' = FetchedExpenses(foodOrders)
          /\ Done("deleteExpense", id, Undefined, FALSE, <<"error">>)
          /\ UNCHANGED <<foodOrders, rtQueue>>
  /\ deletedTemp' = deletedTemp \cup InFlightWith(id)
  /\ UNCHANGED <<sessionUser, clock, addCalls, nCalls, splitVars, orderVars, budgetVars>>

\* fetchExpenses: the collection is replaced by the store's rows
FetchExpenses ==
  /\ expenses # FetchedExpenses(foodOrders)
  /\ expenses' = FetchedExpenses(foodOrders)
  /\ UNCHANGED <<sessionUser, deletedTemp, clock, foodOrders, addCalls, rtQueue, nCalls, nOps, expenseOp,
                 splitVars, orderVars, budgetVars>>

NextExpense ==
  \/ Tick
  \/ \E e \in ExpenseInputs : AddExpense(e)
  \/ \E c \in addCalls : RemoteInsert(c)
  \/ \E c \in addCalls : RemoteInsertFails(c)
  \/ \E c \in addCalls : AddExpenseResume(c)
  \/ RealtimeInsert

SpecExpense == Init /\ [][NextExpense]_vars

\* the ledger after the session has added up to MaxCalls expenses, all
\* inserts are confirmed and the collection has been fetched
InitLedger ==
  /\ InitSplit
  /\ InitOrder
  /\ InitBudget
  /\ sessionUser = 1
  /\ clock = 1
  /\ \E n \in 1..MaxCalls : \E es \in [1..n -> ExpenseInputs] :
       foodOrders = [i \in 1..n |-> FoodOrderRow(es[i], ServerId(i), 1, i)]
  /\ expenses = FetchedExpenses(foodOrders)
  /\ addCalls = {}
  /\ rtQueue = << >>
  /\ nCalls = Len(foodOrders)
  /\ nOps = 0
  /\ expenseOp = NoExpenseOp
  /\ deletedTemp = {}

NextLedger ==
  \/ RealtimeUpdate
  \/ RealtimeDelete
  \/ \E id \in LocalIds, reason \in ReasonInputs, outcome \in CancelOutcomes :
       CancelExpense(id, reason, outcome)
  \/ \E id \in LocalIds, status \in ExpenseStatuses, remoteOk \in BOOLEAN :
       UpdateExpenseStatus(id, status, remoteOk)
  \/ \E id \in LocalIds, remoteOk \in BOOLEAN : DeleteExpense(id, remoteOk)
  \/ FetchExpenses

SpecLedger == InitLedger /\ [][NextLedger]_vars

\* adding and deleting expenses side by side: deleteExpense may be called on
\* an entry whose addExpense has not returned
NextDelete ==
  \/ Tick
  \/ \E e \in ExpenseInputs : AddExpense(e)
  \/ \E c \in addCalls : RemoteInsert(c)
  \/ \E c \in addCalls : RemoteInsertFails(c)
  \/ \E c \in addCalls : AddExpenseResume(c)
  \/ RealtimeInsert
  \/ RealtimeDelete
  \/ \E id \in LocalIds, remoteOk \in BOOLEAN : DeleteExpense(id, remoteOk)

SpecDelete == Init /\ [][NextDelete]_vars


(***************************************************************************)
(* Budget usage: fetchBudgetUsage over stores that the sessions' expense   *)
(* and budget operations have filled.  Every row has an owner, the day of  *)
(* a row is not after today, and a user has at most one budget row, whose  *)
(* alert_threshold is the column's default.  The order of the rows of a    *)
(* table has no influence on a query, so one order stands for all.         *)
(***************************************************************************)
FoodOrder(userId, amount, status, transactionType, orderDate) ==
  [id |-> ServerId(0), call |-> 0, userId |-> userId, foodName |-> "meal",
   amount |-> amount, orderDate |-> orderDate, status |-> status,
   transactionType |-> transactionType, isSplit |-> transactionType = "split",
   splitTotal |-> Undefined, splitPeople |-> Undefined, splitShares |-> Undefined,
   cancelledAt |-> IF status = "cancelled" THEN <<1>> ELSE Undefined,
   cancelledReason |-> Undefined]

\* the rows the tables are drawn from: user 1's completed expenses of today,
\* of this month, of this week but last month, and of last month; one row
\* for every status and transaction type that is not counted; a row of
\* another user and a row without owner (user_id NULL)
FoodOrderInputs ==
  << FoodOrder(1, 300000, "completed", "expense", 32),
     FoodOrder(1, 250000, "completed", "expense", 32),
     FoodOrder(1, 31998,  "completed", "expense", 32),
     FoodOrder(1, 300000, "completed", "expense", 31),
     FoodOrder(1, 300000, "completed", "expense", 30),
     FoodOrder(1, 300000, "completed", "expense", 20),
     FoodOrder(1, 250000, "completed", "income",  32),
     FoodOrder(1, 250000, "completed", "split",   32),
     FoodOrder(1, 250000, "pending",   "expense", 32),
     FoodOrder(1, 250000, "failed",    "expense", 32),
     FoodOrder(1, 250000, "cancelled", "expense", 32),
     FoodOrder(2, 250000, "completed", "expense", 32),
     FoodOrder(NoUser, 250000, "completed", "expense", 32) >>

FoodOrderTables ==
  {[i \in 1..Len(s) |-> [FoodOrderInputs[s[i]] EXCEPT !.id = ServerId(i)]] :
     s \in {t \in UNION {[1..n -> 1..Len(FoodOrderInputs)] : n \in 0..MaxRows} :
              \A i \in 1..(Len(t) - 1) : t[i] <= t[i + 1]}}

UserBudget(userId, monthly, weekly, daily) ==
  [userId |-> userId, monthly |-> monthly, weekly |-> weekly, daily |-> daily,
   alertThreshold |-> DefaultThreshold]

UserBudgetTables ==
  { << >>,
    << UserBudget(1, 1000000, 250000, 40000) >>,
    << UserBudget(1, 20000, 0, 40000) >>,
    << UserBudget(2, 500000, 100000, 20000), UserBudget(1, 1000000, 250000, 40000) >>,
    << UserBudget(NoUser, 500000, 100000, 20000), UserBudget(1, 1000000, 250000, 40000) >> }

InitBudgetStores ==
  /\ InitSplit
  /\ InitOrder
  /\ sessionUser \in {NoUser, 1}
  /\ nOps = 0
  /\ expenseOp = NoExpenseOp
  /\ deletedTemp = {}
  /\ clock = 1
  /\ foodOrders \in FoodOrderTables
  /\ expenses = << >>
  /\ addCalls = {}
  /\ rtQueue = << >>
  /\ nCalls = 0
  /\ today \in TodayInputs
  /\ userBudgets \in UserBudgetTables
  /\ budgetCalls = {}
  /\ budgetUsage = NoUsage
  /\ budgetToast = "none"
  /\ preCheck = NoPreCheck

\* fetchBudgetUsage with budget.budgetPeriod = period and
\* budget.enableAlerts = enableAlerts
FetchBudgetUsage(period, enableAlerts) ==
  /\ \E ub \in BudgetRowChoices(userBudgets, sessionUser) :
       LET data == BudgetUsageData(get_budget_usage(ub, foodOrders, sessionUser, period, today),
                                   period)
       IN  /\ budgetUsage' = data
           /\ budgetToast' = AlertToast(data, enableAlerts)
  /\ UNCHANGED <<today, userBudgets, budgetCalls, preCheck, splitVars, orderVars, expenseVars>>

NextBudget == \E period \in Periods, enableAlerts \in BOOLEAN : FetchBudgetUsage(period, enableAlerts)

SpecBudget == InitBudgetStores /\ [][NextBudget]_vars

(***************************************************************************)
(* setBudget: the select of an existing row, then the update of that row   *)
(* or the insert of a new one.  The requests of calls made one after the   *)
(* other without waiting reach the store in any order.                     *)
(***************************************************************************)
\* the budgets set: monthly, weekly and daily limit in paise
BudgetInputs == {<<1000000, 250000, 40000>>, <<500000, 100000, 20000>>}

\* an insert into user_budgets: the table is keyed by the row's id, the
\* owner is an ordinary nullable column
user_budgets_insert(rows, row) == Append(rows, row)

\* setBudget(newBudget) of a signed-in user starts with the select
SetBudget(call, updatedBudget) ==
  /\ sessionUser # NoUser
  /\ \A c \in budgetCalls : c.call # call
  /\ budgetCalls' = budgetCalls \cup {[call |-> call, userId |-> sessionUser,
                                        updatedBudget |-> updatedBudget,
                                        pc |-> "select", existing |-> << >>]}
  /\ UNCHANGED <<today, userBudgets, budgetUsage, budgetToast, preCheck, splitVars,
                 orderVars, expenseVars>>

\* select('id').eq('user_id', userId).limit(1).maybeSingle(): the id of one
\* of the user's rows, or null
SelectExisting(c) ==
  /\ c.pc = "select"
  /\ \E existing \in IF \E i \in DOMAIN userBudgets : userBudgets[i].userId = c.userId
                      THEN {<<i>> : i \in {j \in DOMAIN userBudgets :
                                              userBudgets[j].userId = c.userId}}
                      ELSE {<< >>} :
       budgetCalls' = (budgetCalls \ {c})
                        \cup {[c EXCEPT !.pc = "write", !.existing = existing]}
  /\ UNCHANGED <<today, userBudgets, budgetUsage, budgetToast, preCheck, splitVars,
                 orderVars, expenseVars>>

\* the update of the row found (.eq('id', existing.id)), or the insert
WriteBudget(c) ==
  /\ c.pc = "write"
  /\ userBudgets' =
       IF c.existing # << >>
       THEN [userBudgets EXCEPT ![c.existing[1]].monthly = c.updatedBudget[1],
                                ![c.existing[1]].weekly = c.updatedBudget[2],
                                ![c.existing[1]].daily = c.updatedBudget[3]]
       ELSE user_budgets_insert(userBudgets,
                                UserBudget(c.userId, c.updatedBudget[1], c.updatedBudget[2],
                                           c.updatedBudget[3]))
  /\ budgetCalls' = budgetCalls \ {c}
  /\ UNCHANGED <<today, budgetUsage, budgetToast, preCheck, splitVars, orderVars,
                 expenseVars>>

NextSetBudget ==
  \/ \E call \in 1..MaxBudgetCalls, b \in BudgetInputs : SetBudget(call, b)
  \/ \E c \in budgetCalls : SelectExisting(c)
  \/ \E c \in budgetCalls : WriteBudget(c)

SpecSetBudget == Init /\ [][NextSetBudget]_vars

(***************************************************************************)
(* Budget pre-check: canAddExpense over stores with a few rows.  Amounts   *)
(* are the decimals typed into the amount field, in paise.                 *)
(***************************************************************************)
\* rows of food_orders: user 1's completed expenses of today and of last
\* month, and a pending expense
PreCheckRows ==
  << FoodOrder(1, 31998, "completed", "expense", 32),
     FoodOrder(1, 10, "completed", "expense", 32),
     FoodOrder(1, 300000, "completed", "expense", 20),
     FoodOrder(1, 250000, "pending", "expense", 32) >>

PreCheckTables ==
  {[i \in 1..Len(s) |-> [PreCheckRows[s[i]] EXCEPT !.id = ServerId(i)]] :
     s \in {t \in UNION {[1..n -> 1..Len(PreCheckRows)] : n \in 0..MaxPreCheckRows} :
              \A i \in 1..(Len(t) - 1) : t[i] < t[i + 1]}}

\* user_budgets: no row; budgets of 200, 0 and 0.30
PreCheckBudgets == { << >>, << UserBudget(1, 20000, 0, 30) >> }

\* candidate amounts, in paise
PreCheckAmounts == {1, 20, 8002, 8003, 1000000}

InitPreCheck ==
  /\ InitSplit
  /\ InitOrder
  /\ sessionUser = 1
  /\ clock = 1
  /\ foodOrders \in PreCheckTables
  /\ expenses = FetchedExpenses(foodOrders)
  /\ addCalls = {}
  /\ rtQueue = << >>
  /\ nCalls = 0
  /\ nOps = 0
  /\ expenseOp = NoExpenseOp
  /\ deletedTemp = {}
  /\ today \in TodayInputs
  /\ userBudgets \in PreCheckBudgets
  /\ budgetCalls = {}
  /\ budgetUsage = NoUsage
  /\ budgetToast = "none"
  /\ preCheck = NoPreCheck

\* canAddExpense(amount) with budget.budgetPeriod = period and
\* budget.enableAlerts = enableAlerts, over the rows fo of food_orders
PreCheckResult(ub, fo, amount, period, enableAlerts, rpcError) ==
  LET usage == get_budget_usage(ub, fo, sessionUser, period, today)
      check == canAddExpense(enableAlerts, rpcError, usage, DFromRat(amount, 100))
  IN  [amount |-> amount, enableAlerts |-> enableAlerts, period |-> period,
       rpcError |-> rpcError, spent |-> usage.total_spent,
       limit |-> usage.budget_limit, allowed |-> check.allowed,
       message |-> check.message]

CheckBudget(fo, amount, period, enableAlerts, rpcError) ==
  \E ub \in BudgetRowChoices(userBudgets, sessionUser) :
    preCheck' = PreCheckResult(ub, fo, amount, period, enableAlerts, rpcError)

\* one call over the stores drawn initially
CanAddExpense(amount, period, enableAlerts, rpcError) ==
  /\ preCheck = NoPreCheck
  /\ CheckBudget(foodOrders, amount, period, enableAlerts, rpcError)
  /\ UNCHANGED <<today, userBudgets, budgetCalls, budgetUsage, budgetToast, splitVars, orderVars,
                 expenseVars>>

NextPreCheck ==
  \E amount \in PreCheckAmounts, period \in Periods, enableAlerts \in BOOLEAN,
     rpcError \in RpcErrors :
    CanAddExpense(amount, period, enableAlerts, rpcError)

SpecPreCheck == InitPreCheck /\ [][NextPreCheck]_vars

(***************************************************************************)
(* Add-expense form: AddExpenseModalNew.handleSubmit, which validates the  *)
(* form, asks canAddExpense, computes the split and hands the expense to   *)
(* addExpense.  The amount fields hold decimals with two places, written   *)
(* here in paise; a text is a sequence of characters.                      *)
(***************************************************************************)
\* String.prototype.trim()
RECURSIVE TrimStart(_)
TrimStart(text) ==
  IF text # << >> /\ text[1] = " " THEN TrimStart(Tail(text)) ELSE text

RECURSIVE TrimEnd(_)
TrimEnd(text) ==
  IF text # << >> /\ text[Len(text)] = " " THEN TrimEnd(SubSeq(text, 1, Len(text) - 1))
  ELSE text

Trim(text) == TrimEnd(TrimStart(text))

\* manualShares.reduce((sum, s) => sum + s.amount, 0)
RECURSIVE SumShares(_)
SumShares(shares) ==
  IF shares = << >> THEN DZero
  ELSE DAdd(SumShares(SubSeq(shares, 1, Len(shares) - 1)), shares[Len(shares)])

\* the form's state at submit: amount and splitPeople are Undefined when
\* parseFloat / parseInt yield NaN, else <<paise>> and <<people>>;
\* manualShares holds the shares' amounts in paise
Form(transactionType, amount, foodName, splitPeople, splitMethod, manualShares) ==
  [transactionType |-> transactionType, amount |-> amount, foodName |-> foodName,
   splitPeople |-> splitPeople, splitMethod |-> splitMethod,
   manualShares |-> manualShares]

\* handleSubmit without the comparison of the manual shares' sum with the
\* amount
handleSubmit_unchecked_sum(form, day) ==
  LET amountNum   == DFromRat(form.amount[1], 100)
      isSplit     == form.transactionType = "split"
      people      == form.splitPeople[1]
      manual      == [i \in 1..Len(form.manualShares) |->
                        DFromRat(form.manualShares[i], 100)]
      equal       == splitExpenseEqually(amountNum, people)
      splitShares == IF form.splitMethod = "equal" THEN equal ELSE manual
      rejected    ==
        isSplit /\ \/ form.splitPeople = Undefined
                   \/ people < 2
                   \/ /\ form.splitMethod = "manual"
                      /\ Len(manual) # people
  IN  IF rejected THEN [added |-> FALSE, toasts |-> <<"error">>]
      ELSE [added   |-> TRUE,
            toasts  |-> << >>,
            expense |->
              [foodName        |-> Trim(form.foodName),
               amount          |-> IF isSplit THEN splitShares[1] ELSE amountNum,
               date            |-> day,
               status          |-> "completed",
               transactionType |-> form.transactionType,
               isSplit         |-> isSplit,
               splitTotal      |-> IF isSplit THEN <<amountNum>> ELSE Undefined,
               splitPeople     |-> IF isSplit THEN <<people>> ELSE Undefined,
               splitShares     |-> IF isSplit THEN <<splitShares>> ELSE Undefined,
               cancelledAt     |-> Undefined,
               cancelledReason |-> Undefined]]

\* handleSubmit after the budget check: the toasts of a rejection, or the
\* expense passed to onAdd
handleSubmit(form, day) ==
  LET amountNum   == DFromRat(form.amount[1], 100)
      isSplit     == form.transactionType = "split"
      people      == form.splitPeople[1]
      manual      == [i \in 1..Len(form.manualShares) |->
                        DFromRat(form.manualShares[i], 100)]
      equal       == splitExpenseEqually(amountNum, people)
      splitShares == IF form.splitMethod = "equal" THEN equal ELSE manual
      rejected    ==
        isSplit /\ \/ form.splitPeople = Undefined
                   \/ people < 2
                   \/ /\ form.splitMethod = "manual"
                      /\ \/ Len(manual) # people
                         \/ DGreater(DAbs(DSub(SumShares(manual), amountNum)),
                                     DFromRat(1, 100))
  IN  IF rejected THEN [added |-> FALSE, toasts |-> <<"error">>]
      ELSE [added   |-> TRUE,
            toasts  |-> << >>,
            expense |->
              [foodName        |-> Trim(form.foodName),
               amount          |-> IF isSplit THEN splitShares[1] ELSE amountNum,
               date            |-> day,
               status          |-> "completed",
               transactionType |-> form.transactionType,
               isSplit         |-> isSplit,
               splitTotal      |-> IF isSplit THEN <<amountNum>> ELSE Undefined,
               splitPeople     |-> IF isSplit THEN <<people>> ELSE Undefined,
               splitShares     |-> IF isSplit THEN <<splitShares>> ELSE Undefined,
               cancelledAt     |-> Undefined,
               cancelledReason |-> Undefined]]

\* the descriptions typed: none, a blank, a padded word
NameInputs == {<< >>, <<" ">>, <<" ", "d", " ">>}

\* the forms submitted
SubmitForms ==
  {Form("expense", a, <<"d">>, <<2>>, "equal", << >>) :
     a \in {Undefined, <<0>>, <<-500>>, <<1000001>>}}
  \cup {Form("expense", <<12000>>, n, <<2>>, "equal", << >>) : n \in NameInputs}
  \cup {Form("income", <<4500>>, <<"d">>, <<2>>, "equal", << >>)}
  \cup {Form("split", <<a>>, <<"d">>, k, "equal", << >>) :
          a \in {3, 10000}, k \in {Undefined} \cup {<<n>> : n \in 1..MaxPeople}}
  \cup {Form("split", <<10000>>, <<"d">>, <<2>>, "manual", sh) :
          sh \in {<< >>, <<5000, 5000>>, <<0, 10000>>, <<5000, 5001>>, <<5000, 5002>>,
                  <<2000, 3000>>, <<3334, 3333, 3333>>}}
  \cup {Form("split", <<10000>>, <<"d">>, <<3>>, "manual", sh) :
          sh \in {<<5000, 5000>>, <<3334, 3333, 3333>>, <<3333, 3333, 3333>>}}
  \cup {Form("split", <<3>>, <<"d">>, <<2>>, "manual", <<1, 2>>)}

\* handleSubmit(form) with budget.enableAlerts = enableAlerts and the
\* customer's answer to the budget warning.  The call ends with a toast on
\* an invalid form, silently when the warning is declined, and otherwise
\* with the call of addExpense, which runs up to its await.
HandleSubmit(form, enableAlerts, confirmed) ==
  /\ nOps < MaxSubmits
  /\ nOps' = nOps + 1
  /\ LET amountOk == form.amount # Undefined /\ form.amount[1] > 0
         nameOk   == Trim(form.foodName) # << >>
         checked  == amountOk /\ nameOk /\ form.transactionType \in {"expense", "split"}
     IN  \E ub \in BudgetRowChoices(userBudgets, sessionUser) :
         \E check \in {IF checked
                       THEN PreCheckResult(ub, foodOrders, form.amount[1], "monthly",
                                           enableAlerts, "none")
                       ELSE preCheck} :
         \E out \in {IF ~amountOk \/ ~nameOk THEN [added |-> FALSE, toasts |-> <<"error">>]
                     ELSE IF checked /\ ~check.allowed /\ ~confirmed
                     THEN [added |-> FALSE, toasts |-> << >>]
                     ELSE handleSubmit(form, today)} :
           /\ preCheck' = check
           /\ IF out.added
              THEN /\ BeginAddExpense(out.expense)
                   /\ Done("handleSubmit", TempId(clock), <<form>>, TRUE,
                           IF sessionUser = NoUser THEN <<"error">> ELSE << >>)
              ELSE /\ Done("handleSubmit", TempId(0), <<form>>, FALSE, out.toasts)
                   /\ UNCHANGED <<expenses, addCalls, nCalls>>
  /\ UNCHANGED <<sessionUser, deletedTemp, clock, foodOrders, rtQueue, today, userBudgets, budgetCalls,
                 budgetUsage, budgetToast, splitVars, orderVars>>

InitSubmit ==
  /\ Init
  /\ sessionUser = 1

NextSubmit ==
  \/ \E form \in SubmitForms, enableAlerts \in BOOLEAN, confirmed \in BOOLEAN :
       HandleSubmit(form, enableAlerts, confirmed)
  \/ \E c \in addCalls : RemoteInsert(c)
  \/ \E c \in addCalls : RemoteInsertFails(c)
  \/ \E c \in addCalls : AddExpenseResume(c)
  \/ RealtimeInsert

SpecSubmit == InitSubmit /\ [][NextSubmit]_vars

(***************************************************************************)
(* Claims.                                                                 *)
(***************************************************************************)
RECURSIVE ExactSum(_)
ExactSum(shares) ==
  IF shares = << >> THEN DZero
  ELSE ExactAdd(shares[1], ExactSum(Tail(shares)))

RECURSIVE IntSum(_)
IntSum(shares) ==
  IF shares = << >> THEN 0 ELSE shares[1] + IntSum(Tail(shares))

\* the exact value of a - b, for binary64 a and b
ExactDiff(a, b) == ExactAdd(a, DNeg(b))

\* C1 on the binary64 shares of splitExpenseEqually
TsSplitConserves ==
  LET total == DFromRat(splitCall.total, 100)
  IN  /\ Len(tsShares) = splitCall.people
      /\ ExactDiff(ExactSum(tsShares), total).m = << >>
      /\ \A i \in 2..Len(tsShares) :
           LET d == ExactDiff(tsShares[1], tsShares[i])
           IN  /\ d.sign = 1
               /\ CmpRat(d, splitCall.people, 100) < 0

\* C1 on the DECIMAL shares of split_expense_equally
SqlSplitConserves ==
  /\ Len(sqlShares) = splitCall.people
  /\ IntSum(sqlShares) = splitCall.total
  /\ \A i \in 2..Len(sqlShares) :
       /\ sqlShares[1] >= sqlShares[i]
       /\ sqlShares[1] - sqlShares[i] < splitCall.people

\* C1: for every total > 0 (whole paise) and people >= 2 the split returns
\* exactly `people` shares whose sum is exactly the total, person 1's share
\* being >= every other share and exceeding it by less than `people` paise.
C1_SplitConservation ==
  /\ splitCall.fn = "splitExpenseEqually" => TsSplitConserves
  /\ splitCall.fn = "split_expense_equally" => SqlSplitConserves

\* the timestamp columns that record the entry into a status
TimestampFields ==
  {"confirmedAt", "preparingAt", "readyAt", "pickedUpAt", "onTheWayAt",
   "deliveredAt", "cancelledAt"}

\* C2: a per-status timestamp is write-once: once confirmedAt, preparingAt,
\* ..., deliveredAt or cancelledAt of an order is set, no operation clears it
\* or overwrites it (a repeated transition leaves the first value).
C2_TimestampWriteOnce ==
  [][\A o \in DOMAIN orders : \A f \in TimestampFields :
       orders[o][f] # NULL => orders'[o][f] = orders[o][f]]_vars

\* the step is a client operation `op` (it stamped lastOp anew)
IsOp(op) == lastOp' # lastOp /\ lastOp'.op = op

\* the history entries of order o, oldest first
RECURSIVE HistoryOf(_, _)
HistoryOf(hist, o) ==
  IF hist = << >> THEN << >>
  ELSE (IF hist[1].orderId = o THEN <<hist[1]>> ELSE << >>) \o HistoryOf(Tail(hist), o)

StatusesOf(hist, o) == [i \in 1..Len(HistoryOf(hist, o)) |-> HistoryOf(hist, o)[i].status]

\* a step appends exactly one entry, for order o with status st
AppendsOne(o, st) ==
  /\ Len(history') = Len(history) + 1
  /\ SubSeq(history', 1, Len(history)) = history
  /\ history'[Len(history')].orderId = o
  /\ history'[Len(history')].status = st

FrozenFields ==
  {"status", "placedAt", "cancellationReason", "cancelledBy"} \cup TimestampFields

\* C4: terminal statuses are absorbing: once an order is delivered or
\* cancelled, no client operation changes its status or any field other than
\* rating/review.
C4_TerminalAbsorbing ==
  [][\A o \in DOMAIN orders :
       orders[o].status \in {"delivered", "cancelled"}
         => \A f \in FrozenFields : orders'[o][f] = orders[o][f]]_vars

\* C9: cancel requires canCancel: invoked on an order that is not placed or
\* confirmed it leaves the order and the history unchanged; invoked on a
\* placed or confirmed order it sets status cancelled, the reason and
\* cancelledBy = customer.
C9_CancelRequiresCanCancel ==
  [][\A o \in DOMAIN orders :
       (IsOp("cancelOrder") \/ IsOp("handleCancelOrder")) /\ lastOp'.orderId = o
         => IF canCancel(orders[o])
            THEN /\ orders'[o].status = "cancelled"
                 /\ orders'[o].cancellationReason = lastOp'.arg
                 /\ orders'[o].cancelledBy = "customer"
            ELSE /\ orders'[o] = orders[o]
                 /\ history' = history]_vars

\* C10: rate requires canRate: a rate call changes rating/review only when
\* the order is delivered and has no rating; otherwise the stored rating and
\* review stay as they are (a rating is set at most once).
C10_RateRequiresCanRate ==
  [][\A o \in DOMAIN orders :
       /\ IsOp("rateOrder") /\ lastOp'.orderId = o /\ ~canRate(orders[o])
            => /\ orders'[o].rating = orders[o].rating
               /\ orders'[o].review = orders[o].review
       /\ orders[o].rating # NULL => orders'[o].rating = orders[o].rating]_vars

\* C5: expense round-trip.  addExpense puts the new entry, under a temporary
\* id, at the head of the collection; when the remote insert has succeeded
\* the reconciliation replaces that entry's id by the store's and changes
\* nothing else: same length, same order, every other field and every other
\* entry as before.
C5_ExpenseRoundTrip ==
  [][/\ nCalls' = nCalls + 1
          => /\ Len(expenses') = Len(expenses) + 1
             /\ Tail(expenses') = expenses
             /\ Head(expenses').id.kind = "temp"
             /\ Head(expenses').call = nCalls'
     /\ \A c \in addCalls :
          c.pc = "ok" /\ c \notin addCalls'
            => /\ Len(expenses') = Len(expenses)
               /\ \A i \in 1..Len(expenses) :
                    expenses'[i] = IF expenses[i].call = c.call /\ expenses[i].id = c.tempId
                                   THEN [expenses[i] EXCEPT !.id = c.id]
                                   ELSE expenses[i]]_vars

\* C6: the realtime merge is idempotent: under every interleaving of the
\* optimistic insert, the insert's confirmation and the realtime INSERT event
\* the local collection never holds two entries with the same id nor two
\* entries for the same expense.
C6_NoDuplicateExpense ==
  \A i, j \in 1..Len(expenses) :
    i # j => /\ expenses[i].id # expenses[j].id
             /\ expenses[i].call # expenses[j].call

\* C7: the alert flag is exact: in every BudgetUsage that fetchBudgetUsage
\* stores, shouldAlert is true exactly when that record's percentageUsed
\* (rounded to two decimals) is at least its alertThreshold.
C7_AlertFlagExact ==
  budgetUsage.period # NoText
    => (budgetUsage.shouldAlert <=> budgetUsage.percentageUsed >= budgetUsage.alertThreshold)

\* the rows of food_orders that are completed expenses of the period and
\* belong to the session user's ledger (the user's rows and the rows without
\* owner; whose rows count is the matter of C30)
OwnCompletedExpenses(period) ==
  {i \in 1..Len(foodOrders) :
     /\ foodOrders[i].userId \in {sessionUser, NoUser}
     /\ foodOrders[i].status = "completed"
     /\ foodOrders[i].transactionType = "expense"
     /\ foodOrders[i].orderDate \in PeriodStart(period, today)..today}

\* the sum of the amounts of the rows in S, amount by amount
AmountTotal(S) ==
  LET amounts == {foodOrders[i].amount : i \in S}
      F[A \in SUBSET amounts] ==
        IF A = {} THEN 0
        ELSE LET a == CHOOSE x \in A : TRUE
             IN  a * Cardinality({i \in S : foodOrders[i].amount = a}) + F[A \ {a}]
  IN  F[amounts]

\* the scenario of C8: a monthly budget of 10000 with threshold 80 and
\* exactly three own completed expenses this month, 3000, 3000 and 2500
C8_Scenario ==
  /\ budgetUsage.period = "monthly"
  /\ budgetUsage.budgetLimit = 1000000
  /\ budgetUsage.alertThreshold = 8000
  /\ Cardinality({i \in OwnCompletedExpenses("monthly") : foodOrders[i].amount = 300000}) = 2
  /\ Cardinality({i \in OwnCompletedExpenses("monthly") : foodOrders[i].amount = 250000}) = 1
  /\ Cardinality(OwnCompletedExpenses("monthly")) = 3

\* C8: the budget usage counts exactly the user's own completed expenses of
\* the period: totalSpent is their sum (split, income, pending, failed and
\* cancelled entries, entries of other users and entries before the period
\* add nothing) and remaining is budgetLimit - totalSpent.  With a monthly
\* budget of 10000, a threshold of 80 and completed expenses of 3000, 3000
\* and 2500 this month the usage is 8500, 85.00 %, 1500 remaining, alert.
C8_UsageCountsCompletedExpenses ==
  (budgetUsage.period # NoText /\ sessionUser # NoUser)
    => /\ budgetUsage.totalSpent = AmountTotal(OwnCompletedExpenses(budgetUsage.period))
       /\ budgetUsage.remaining = budgetUsage.budgetLimit - budgetUsage.totalSpent
       /\ C8_Scenario => /\ budgetUsage.totalSpent = 850000
                         /\ budgetUsage.percentageUsed = 8500
                         /\ budgetUsage.remaining = 150000
                         /\ budgetUsage.shouldAlert

\* the scenario of C8 has been computed, over a table that also holds a row
\* that is not counted
C8_Witness ==
  /\ C8_Scenario
  /\ sessionUser = 1
  /\ userBudgets # << >>
  /\ budgetUsage.totalSpent = 850000
  /\ budgetUsage.percentageUsed = 8500
  /\ Len(foodOrders) = 4
  /\ \E i \in 1..Len(foodOrders) :
       foodOrders[i].userId = 1 /\ foodOrders[i].transactionType = "split"


(***************************************************************************)
(* Expense ledger claims, checked under SpecLedger.                        *)
(***************************************************************************)
\* an expense operation op completes in this step
IsExpenseOp(op) == expenseOp' # expenseOp /\ expenseOp'.op = op

\* the positions of id in a table or collection
PositionsOf(rows, id) == {i \in 1..Len(rows) : rows[i].id = id}

\* C11: cancelExpense changes an expense only when its status is pending or
\* completed, and then sets status cancelled, cancelledAt and
\* cancelledReason; on a failed or cancelled expense it reports failure and
\* leaves the expense unchanged, in the collection and in the store.
C11_CancelOnlyPendingOrCompleted ==
  [][IsExpenseOp("cancelExpense") =>
       LET id == expenseOp'.id
       IN  /\ \A i \in PositionsOf(foodOrders, id) :
                IF foodOrders[i].status \in {"pending", "completed"}
                THEN foodOrders'[i] # foodOrders[i] =>
                       /\ foodOrders'[i].status = "cancelled"
                       /\ foodOrders'[i].cancelledAt # Undefined
                       /\ foodOrders'[i].cancelledReason = expenseOp'.arg
                ELSE /\ foodOrders'[i] = foodOrders[i]
                     /\ expenseOp'.toasts = <<"error">>
           /\ \A i \in PositionsOf(expenses, id) :
                IF expenses[i].status \in {"pending", "completed"}
                THEN expenses'[i] # expenses[i] =>
                       /\ expenses'[i].status = "cancelled"
                       /\ expenses'[i].cancelledAt # Undefined
                       /\ expenses'[i].cancelledReason = expenseOp'.arg
                ELSE /\ expenses'[i] = expenses[i]
                     /\ expenseOp'.toasts = <<"error">>]_vars

\* C12: every cancelled expense carries a cancellation time, in the store
\* and in the collection, whichever operation cancelled it.
C12_CancelledHasCancelledAt ==
  /\ \A i \in 1..Len(foodOrders) :
       foodOrders[i].status = "cancelled" => foodOrders[i].cancelledAt # Undefined
  /\ \A i \in 1..Len(expenses) :
       expenses[i].status = "cancelled" => expenses[i].cancelledAt # Undefined


(***************************************************************************)
(* Budget pre-check claim, checked under SpecPreCheck.                     *)
(***************************************************************************)
\* C18: canAddExpense returns allowed = true exactly when (current period
\* spend + candidate amount) / budget limit x 100 <= 100, and allowed =
\* false with a message otherwise, for every candidate amount, spend and
\* budget configuration (with a budget limit above 0).
C18_PreCheckExact ==
  (preCheck # NoPreCheck /\ preCheck.limit > 0) =>
     /\ preCheck.allowed <=> (preCheck.spent + preCheck.amount) * 100 <= preCheck.limit * 100
     /\ preCheck.message <=> ~preCheck.allowed


(***************************************************************************)
(* Add-expense form claims, checked under SpecSubmit.  Amounts are         *)
(* compared in paise: a binary64 amount counts as the paisa nearest to it. *)
(***************************************************************************)
\* the form of the handleSubmit call that completes in this step
SubmittedForm == expenseOp'.arg[1]

\* the store and the session's collection and calls stay as they are
NothingAdded == UNCHANGED <<expenses, foodOrders, addCalls, rtQueue, nCalls>>

\* C13: an add with amount <= 0 or an empty description is rejected before
\* any local or remote change, and every expense in the collection and in
\* the store has amount > 0 and a non-empty description.
C13_ValidationPrecedesMutation ==
  /\ [](/\ \A i \in 1..Len(expenses) :
             ToPaise(expenses[i].amount) > 0 /\ expenses[i].foodName # << >>
        /\ \A i \in 1..Len(foodOrders) :
             foodOrders[i].amount > 0 /\ foodOrders[i].foodName # << >>)
  /\ [][(/\ IsExpenseOp("handleSubmit")
         /\ \/ SubmittedForm.amount = Undefined
            \/ SubmittedForm.amount[1] <= 0
            \/ Trim(SubmittedForm.foodName) = << >>)
        => ~expenseOp'.ok /\ NothingAdded]_vars

\* the paise of the shares of a split
RECURSIVE SharesPaise(_)
SharesPaise(shares) ==
  IF shares = << >> THEN 0 ELSE ToPaise(shares[1]) + SharesPaise(Tail(shares))

\* the split fields of an expense whose amount and split total are given in
\* paise
SplitConsistent(amount, splitTotal, splitPeople, splitShares) ==
  /\ splitPeople # Undefined
  /\ splitShares # Undefined
  /\ splitTotal # Undefined
  /\ splitPeople[1] >= 2
  /\ Len(splitShares[1]) = splitPeople[1]
  /\ SharesPaise(splitShares[1]) - splitTotal[1] \in -1..1
  /\ amount = ToPaise(splitShares[1][1])

ExpenseOperations == {"addExpense", "cancelExpense", "deleteExpense", "updateExpenseStatus"}

OrderOperations == {"createOrder", "updateOrderStatus", "cancelOrder", "rateOrder"}

\* C15: every invocation of a mutating operation emits exactly one
\* notification, a success notification if the operation succeeded and a
\* failure notification if it failed (an order operation fails on an order
\* that does not exist, and a rating without stars is refused).
C15_ExactlyOneNotification ==
  [][/\ (expenseOp' # expenseOp /\ expenseOp'.op \in ExpenseOperations) =>
          expenseOp'.toasts = <<IF expenseOp'.ok THEN "success" ELSE "error">>
     /\ (lastOp' # lastOp /\ lastOp'.op \in OrderOperations) =>
          lastOp'.toasts = <<IF lastOp'.orderId \in DOMAIN orders' /\ lastOp'.arg # "rejected"
                             THEN "success" ELSE "error">>]_vars


\* the result the rpc of an updateOrderStatus step hands back to the client
TransitionResult ==
  update_order_status(orders, history, now, lastOp'.orderId, lastOp'.arg, NoText)

\* C16: the result of update_order_status is true exactly when an order with
\* the given id existed and was updated; when no such order exists the call
\* returns false (it does not fail) and the history entry is appended all
\* the same.
C16_ResultReflectsUpdate ==
  [][IsOp("updateOrderStatus")
       => /\ ~TransitionResult.error
          /\ TransitionResult.found <=> lastOp'.orderId \in DOMAIN orders
          /\ lastOp'.orderId \in DOMAIN orders
               => orders'[lastOp'.orderId].status = lastOp'.arg
          /\ AppendsOne(lastOp'.orderId, lastOp'.arg)]_vars


\* C17: for every order, getOrderTrackingState returns canCancel = true
\* exactly when the status is placed or confirmed, and canRate = true exactly
\* when the status is delivered and no rating is set; so the two are never
\* both true and both are false for cancelled and failed orders.
C17_TrackingFlags ==
  \A o \in DOMAIN orders :
    LET state == getOrderTrackingState(orders[o])
    IN  /\ state.canCancel <=> orders[o].status \in {"placed", "confirmed"}
        /\ state.canRate <=> (orders[o].status = "delivered" /\ orders[o].rating = NULL)
        /\ ~(state.canCancel /\ state.canRate)
        /\ orders[o].status \in {"cancelled", "failed"}
             => ~state.canCancel /\ ~state.canRate

\* C17 witness: a rating was sent for a delivered order, whose tracking state
\* no longer offers to rate it
C17_Witness ==
  /\ lastOp.op = "rateOrder"
  /\ \E o \in DOMAIN orders :
       /\ orders[o].status = "delivered"
       /\ orders[o].rating # NULL
       /\ ~getOrderTrackingState(orders[o]).canRate


\* C19: order numbers are collision-free: under every interleaving of two
\* order creations on the same day (each reading generate_order_number and
\* then inserting the order) the two are assigned different order numbers,
\* no creation is rejected by the uniqueness constraint on order_number and
\* no two stored orders share an order number.
C19_OrderNumbersCollisionFree ==
  /\ \A s1, s2 \in Sessions :
       s1 # s2 /\ flows[s1].pc = "numbered" /\ flows[s2].pc = "numbered"
         => flows[s1].orderNumber # flows[s2].orderNumber
  /\ \A s \in Sessions : flows[s].pc # "rejected"
  /\ \A o1, o2 \in DOMAIN orders :
       o1 # o2 => orders[o1].orderNumber # orders[o2].orderNumber


\* C20: an order's status is changed only through the transition operation:
\* after any sequence of client operations every change of status set the
\* matching timestamp and appended a history entry, so the latest history
\* entry of an order carries the order's current status and a cancelled
\* order has cancelledAt set.
C20_StatusOnlyThroughTransition ==
  \A o \in DOMAIN orders :
    /\ HistoryOf(history, o) # << >>
    /\ HistoryOf(history, o)[Len(HistoryOf(history, o))].status = orders[o].status
    /\ orders[o].status = "cancelled" => orders[o].cancelledAt # NULL



(***************************************************************************)
(* Ledger claims on failures, checked under SpecExpense and SpecLedger.    *)
(***************************************************************************)
\* C23: when the remote insert of addExpense fails, or is skipped because no
\* user is logged in, the optimistic entry stays in the collection at its
\* position with its temporary id and all fields unchanged, an error
\* notification is emitted and nothing removes the entry.
C23_FailedAddKeepsEntry ==
  [][/\ \A c \in addCalls :
          c.pc = "error" /\ c \notin addCalls'
            => /\ expenseOp'.toasts = <<"error">>
               /\ expenses' = expenses
               /\ \E i \in 1..Len(expenses') :
                    expenses'[i] = LocalExpense(c.expense, c.tempId, c.call)
     /\ IsExpenseOp("addExpense") /\ sessionUser = NoUser
          => /\ expenseOp'.toasts = <<"error">>
             /\ Tail(expenses') = expenses
             /\ Head(expenses').id = expenseOp'.id
             /\ Head(expenses').id.kind = "temp"]_vars


\* C24: updateExpense(id, fields) merges the supplied fields into the local
\* entry and sends exactly the supplied fields to the store, so after a
\* successful update (by updateExpenseStatus or by cancelExpense) the local
\* entry and the stored row agree on every field.
C24_UpdateReachesStore ==
  [][(IsExpenseOp("updateExpenseStatus") \/ IsExpenseOp("cancelExpense")) /\ expenseOp'.ok
       => \A i \in PositionsOf(expenses', expenseOp'.id) :
            \A j \in PositionsOf(foodOrders', expenseOp'.id) :
              expenses'[i] = mapOrderToExpense(foodOrders'[j])]_vars


PrescribedAlert(data, enableAlerts) ==
  IF data.shouldAlert /\ enableAlerts
  THEN IF data.percentageUsed >= 10000 THEN "error" ELSE "warning"
  ELSE "none"

\* C26: on every recomputation of the budget usage, with alerts enabled and
\* shouldAlert true exactly one notification is raised, 'exceeded' when
\* percentageUsed >= 100 and the warning when percentageUsed < 100; with
\* shouldAlert false or alerts disabled none is raised; a budget limit of 0
\* raises none.
C26_OneAlertPerRecomputation ==
  budgetUsage.period # NoText
    => /\ \A enableAlerts \in BOOLEAN :
            AlertToast(budgetUsage, enableAlerts) = PrescribedAlert(budgetUsage, enableAlerts)
       /\ budgetToast \in {PrescribedAlert(budgetUsage, e) : e \in BOOLEAN}
       /\ ~budgetUsage.shouldAlert => budgetToast = "none"
       /\ budgetUsage.budgetLimit = 0 => budgetToast = "none" /\ ~budgetUsage.shouldAlert

\* a warning has been raised below 100 percent
C26_Witness ==
  /\ budgetUsage.shouldAlert
  /\ budgetUsage.percentageUsed < 10000
  /\ budgetToast = "warning"

\* the rows of a table that belong to the user
OwnRows(rows, user) == SelectSeq(rows, LAMBDA row : row.userId = user)

C27_CancellationMetadataImpliesCancelled ==
  \A o \in DOMAIN orders :
    (orders[o].cancelledBy # NoText \/ orders[o].cancellationReason # NoText)
      => orders[o].status = "cancelled"


(* Claims on the orders collection of a session, checked under SpecTracking. *)
\* C21: under every interleaving of createOrder's prepend and of the realtime
\* INSERT/UPDATE events, the orders collection of a session holds at most
\* one entry per order id.
C21_OneEntryPerOrder ==
  \A s \in Sessions :
    \A i, j \in 1..Len(localOrders[s]) :
      i # j => localOrders[s][i].id # localOrders[s][j].id

\* C29: the orders collection of a session holds only that session's orders:
\* those of its user when signed in, those without owner when anonymous.
C29_OnlyOwnOrders ==
  \A s \in Sessions :
    \A i \in 1..Len(localOrders[s]) : localOrders[s][i].userId = auth_uid(s)


\* C22: the budget record is a singleton per user: under every interleaving
\* of setBudget calls of a user, the store holds at most one row of
\* user_budgets for that user.
C22_BudgetSingleton ==
  Cardinality({i \in DOMAIN userBudgets : userBudgets[i].userId = sessionUser}) <= 1


\* C28: deleting an optimistic entry is effective: when deleteExpense was
\* called on an entry with its temporary id while the insert of its
\* addExpense was in flight, then once every call has returned and every
\* realtime event is handled the expense is neither in the store nor in the
\* local collection.
C28_DeleteOfOptimisticEntryEffective ==
  (addCalls = {} /\ rtQueue = << >>)
    => \A k \in deletedTemp :
         /\ \A i \in 1..Len(foodOrders) : foodOrders[i].call # k
         /\ \A i \in 1..Len(expenses) : expenses[i].call # k

====
